---- MODULE Spec2Model ----
(***************************************************************************)
(* Model of the streaming transformation pipeline of                       *)
(* spotify-data-transformation: the field parsers, the two filter stages   *)
(* (FilterTransform, ArtistFilterTransform) of src/src/transformer.ts and  *)
(* the driver runTransformation of src/src/index.ts.                       *)
(*                                                                         *)
(* A JavaScript string is a sequence of one-character strings, so that     *)
(* trim, replace, Number and JSON.parse are computed character by          *)
(* character.  The absent value `undefined` is the sentinel Undefined.     *)
(***************************************************************************)
EXTENDS Integers, Sequences, FiniteSets, TLC

\* ------------------------------------------------------------------------
\* JavaScript strings
\* ------------------------------------------------------------------------

\* `undefined`: a column the decoded row does not have.
Undefined == <<"undefined">>

\* White space as String.prototype.trim and StringToNumber see it.
IsSpace(c) == c \in {" ", "\t"}

Digits == {"0", "1", "2", "3", "4", "5", "6", "7", "8", "9"}

IsDigit(c) == c \in Digits

DigitVal(c) ==
    CASE c = "0" -> 0 [] c = "1" -> 1 [] c = "2" -> 2 [] c = "3" -> 3
      [] c = "4" -> 4 [] c = "5" -> 5 [] c = "6" -> 6 [] c = "7" -> 7
      [] c = "8" -> 8 [] c = "9" -> 9

RECURSIVE TrimStart(_)
TrimStart(s) ==
    IF s # <<>> /\ IsSpace(Head(s)) THEN TrimStart(Tail(s)) ELSE s

RECURSIVE TrimEnd(_)
TrimEnd(s) ==
    IF s # <<>> /\ IsSpace(s[Len(s)]) THEN TrimEnd(SubSeq(s, 1, Len(s) - 1)) ELSE s

\* String.prototype.trim
Trim(s) == TrimEnd(TrimStart(s))

\* s.replace(/'/g, '"')
ReplaceQuotes(s) == [i \in 1..Len(s) |-> IF s[i] = "'" THEN "\"" ELSE s[i]]

\* s.split(sep) for a one-character separator
RECURSIVE Split(_, _)
Split(s, sep) ==
    IF \E i \in 1..Len(s) : s[i] = sep
    THEN LET k == CHOOSE i \in 1..Len(s) : s[i] = sep /\ \A j \in 1..(i - 1) : s[j] # sep
         IN  <<SubSeq(s, 1, k - 1)>> \o Split(SubSeq(s, k + 1, Len(s)), sep)
    ELSE <<s>>

AllDigits(s) == \A i \in 1..Len(s) : IsDigit(s[i])

\* ------------------------------------------------------------------------
\* JavaScript numbers: NaN, or an exact decimal num/den (den a power of ten).
\* The decimals of the inputs are short, so the comparison of the exact
\* values agrees with the comparison of the doubles they parse to.
\* ------------------------------------------------------------------------

NaN == [nan |-> TRUE, num |-> 0, den |-> 1]

Num(n, d) == [nan |-> FALSE, num |-> n, den |-> d]

isNaN(x) == x.nan

\* x < y and x <= y on numbers; every comparison with NaN is false.
Lt(x, y) == ~x.nan /\ ~y.nan /\ x.num * y.den < y.num * x.den

Le(x, y) == ~x.nan /\ ~y.nan /\ x.num * y.den <= y.num * x.den

RECURSIVE Pow10(_)
Pow10(n) == IF n = 0 THEN 1 ELSE 10 * Pow10(n - 1)

RECURSIVE DigitsValue(_)
DigitsValue(s) ==
    IF s = <<>> THEN 0
    ELSE 10 * DigitsValue(SubSeq(s, 1, Len(s) - 1)) + DigitVal(s[Len(s)])

\* StrUnsignedDecimalLiteral without exponent: digits, digits.digits,
\* digits. and .digits
StrUnsignedDecimal(u) ==
    LET dots == {i \in 1..Len(u) : u[i] = "."}
    IN  IF dots = {}
        THEN IF u # <<>> /\ AllDigits(u) THEN Num(DigitsValue(u), 1) ELSE NaN
        ELSE IF Cardinality(dots) = 1
        THEN LET k == CHOOSE i \in dots : TRUE
                 a == SubSeq(u, 1, k - 1)
                 b == SubSeq(u, k + 1, Len(u))
             IN  IF AllDigits(a) /\ AllDigits(b) /\ Len(a) + Len(b) > 0
                 THEN Num(DigitsValue(a \o b), Pow10(Len(b)))
                 ELSE NaN
        ELSE NaN

\* Number(value): undefined is NaN, a blank string is 0, a signed decimal
\* literal is its value, anything else is NaN.
ToNumber(s) ==
    IF s = Undefined THEN NaN
    ELSE LET t == Trim(s)
         IN  IF t = <<>> THEN Num(0, 1)
             ELSE IF Head(t) \in {"-", "+"}
             THEN LET v == StrUnsignedDecimal(Tail(t))
                  IN  IF v.nan THEN NaN
                      ELSE IF Head(t) = "-" THEN Num(0 - v.num, v.den) ELSE v
             ELSE StrUnsignedDecimal(t)

\* ------------------------------------------------------------------------
\* JSON.parse, for the texts over the alphabet  [ ] , " - digits letters
\* and blanks: strings without escapes, integers, the three literals and
\* arrays of them.  A value is [ok, kind, val, next]; ok = FALSE is the
\* SyntaxError JSON.parse throws.
\* ------------------------------------------------------------------------

JFail == [ok |-> FALSE, kind |-> "error", val |-> <<>>, next |-> 0]

JVal(k, v, n) == [ok |-> TRUE, kind |-> k, val |-> v, next |-> n]

RECURSIVE SkipWs(_, _)
SkipWs(s, i) == IF i <= Len(s) /\ IsSpace(s[i]) THEN SkipWs(s, i + 1) ELSE i

RECURSIVE DigitsEnd(_, _)
DigitsEnd(s, i) == IF i <= Len(s) /\ IsDigit(s[i]) THEN DigitsEnd(s, i + 1) ELSE i

HasAt(s, i, w) == i + Len(w) - 1 <= Len(s) /\ SubSeq(s, i, i + Len(w) - 1) = w

ParseJString(s, i) ==
    IF \E j \in (i + 1)..Len(s) : s[j] = "\""
    THEN LET j == CHOOSE j \in (i + 1)..Len(s) :
                      s[j] = "\"" /\ \A k \in (i + 1)..(j - 1) : s[k] # "\""
         IN  JVal("string", SubSeq(s, i + 1, j - 1), j + 1)
    ELSE JFail

\* -? ( 0 | [1-9][0-9]* )
ParseJNumber(s, i) ==
    LET d == IF s[i] = "-" THEN i + 1 ELSE i
    IN  IF d > Len(s) \/ ~IsDigit(s[d]) THEN JFail
        ELSE LET e == IF s[d] = "0" THEN d + 1 ELSE DigitsEnd(s, d)
                 v == DigitsValue(SubSeq(s, d, e - 1))
             IN  JVal("number", IF d = i THEN v ELSE 0 - v, e)

RECURSIVE ParseJValue(_, _)
RECURSIVE ParseJElements(_, _, _)

ParseJValue(s, i) ==
    IF i > Len(s) THEN JFail
    ELSE IF s[i] = "\"" THEN ParseJString(s, i)
    ELSE IF s[i] = "-" \/ IsDigit(s[i]) THEN ParseJNumber(s, i)
    ELSE IF HasAt(s, i, <<"n", "u", "l", "l">>) THEN JVal("null", <<>>, i + 4)
    ELSE IF HasAt(s, i, <<"t", "r", "u", "e">>) THEN JVal("boolean", <<>>, i + 4)
    ELSE IF HasAt(s, i, <<"f", "a", "l", "s", "e">>) THEN JVal("boolean", <<>>, i + 5)
    ELSE IF s[i] = "["
    THEN LET j == SkipWs(s, i + 1)
         IN  IF j <= Len(s) /\ s[j] = "]" THEN JVal("array", <<>>, j + 1)
             ELSE ParseJElements(s, j, <<>>)
    ELSE JFail

ParseJElements(s, i, acc) ==
    LET v == ParseJValue(s, i)
    IN  IF ~v.ok THEN JFail
        ELSE LET k == SkipWs(s, v.next)
                 e == [kind |-> v.kind, val |-> v.val]
             IN  IF k > Len(s) THEN JFail
                 ELSE IF s[k] = "," THEN ParseJElements(s, SkipWs(s, k + 1), Append(acc, e))
                 ELSE IF s[k] = "]" THEN JVal("array", Append(acc, e), k + 1)
                 ELSE JFail

JSONparse(s) ==
    LET v == ParseJValue(s, SkipWs(s, 1))
    IN  IF v.ok /\ SkipWs(s, v.next) = Len(s) + 1 THEN v ELSE JFail

\* ------------------------------------------------------------------------
\* Field parsers (transformer.ts)
\* ------------------------------------------------------------------------

\* Characters the class [^\x20-\x7E] removes; of the alphabet only the tab.
IsPrintable(c) == c # "\t"

RECURSIVE Printable(_)
Printable(s) ==
    IF s = <<>> THEN <<>>
    ELSE IF IsPrintable(Head(s)) THEN <<Head(s)>> \o Printable(Tail(s))
    ELSE Printable(Tail(s))

\* /^\d{4}-\d{2}-\d{2}$/
IsYMD(c) ==
    /\ Len(c) = 10
    /\ c[5] = "-" /\ c[8] = "-"
    /\ \A i \in {1, 2, 3, 4, 6, 7, 9, 10} : IsDigit(c[i])

\* /^\d{1,2}\/\d{1,2}\/\d{4}$/
IsDMY(c) ==
    LET p == Split(c, "/")
    IN  /\ Len(p) = 3
        /\ Len(p[1]) \in {1, 2} /\ AllDigits(p[1])
        /\ Len(p[2]) \in {1, 2} /\ AllDigits(p[2])
        /\ Len(p[3]) = 4 /\ AllDigits(p[3])

\* /^\d{4}$/
IsYear(c) == Len(c) = 4 /\ AllDigits(c)

\* Faulty variant of parseReleaseDate: D/M/YYYY is read as month/day/year.
parseReleaseDate_MonthFirst(dateStr) ==
    LET cleaned == Trim(Printable(dateStr))
    IN  IF IsYMD(cleaned)
        THEN LET p == Split(cleaned, "-")
             IN  [year |-> p[1], month |-> p[2], day |-> p[3]]
        ELSE IF IsDMY(cleaned)
        THEN LET p == Split(cleaned, "/")
             IN  [year |-> p[3], month |-> p[1], day |-> p[2]]
        ELSE IF IsYear(cleaned)
        THEN [year |-> cleaned, month |-> <<>>, day |-> <<>>]
        ELSE [year |-> <<>>, month |-> <<>>, day |-> <<>>]

parseReleaseDate(dateStr) ==
    LET cleaned == Trim(Printable(dateStr))
    IN  IF IsYMD(cleaned)
        THEN LET p == Split(cleaned, "-")
             IN  [year |-> p[1], month |-> p[2], day |-> p[3]]
        ELSE IF IsDMY(cleaned)
        THEN LET p == Split(cleaned, "/")
             IN  [year |-> p[3], month |-> p[2], day |-> p[1]]
        ELSE IF IsYear(cleaned)
        THEN [year |-> cleaned, month |-> <<>>, day |-> <<>>]
        ELSE [year |-> <<>>, month |-> <<>>, day |-> <<>>]

\* Faulty variant of transformDanceability: the tie 0.5 falls to "Low".
transformDanceability_TieLow(value) ==
    IF value = Undefined \/ value = <<>> THEN ""
    ELSE LET num == ToNumber(value)
         IN  IF isNaN(num) THEN ""
             ELSE IF Le(num, Num(5, 10)) THEN "Low"
             ELSE IF Le(num, Num(6, 10)) THEN "Medium"
             ELSE IF Le(num, Num(1, 1)) THEN "High"
             ELSE ""

\* The labels are whole strings: nothing reads their characters.
transformDanceability(value) ==
    IF value = Undefined \/ value = <<>> THEN ""
    ELSE LET num == ToNumber(value)
         IN  IF isNaN(num) THEN ""
             ELSE IF Lt(num, Num(5, 10)) THEN "Low"
             ELSE IF Le(num, Num(6, 10)) THEN "Medium"
             ELSE IF Le(num, Num(1, 1)) THEN "High"
             ELSE ""

\* ------------------------------------------------------------------------
\* FilterTransform._transform, in the order of its statements
\* ------------------------------------------------------------------------

\* track.name?.trim()
TrimmedName(track) == IF track.name = Undefined THEN Undefined ELSE Trim(track.name)

\* !name || isNaN(duration) || duration < this.minDuration
FailsFilter(track, minDur) ==
    LET name == TrimmedName(track)
        duration == ToNumber(track.duration_ms)
    IN  \/ name = Undefined
        \/ name = <<>>
        \/ isNaN(duration)
        \/ Lt(duration, Num(minDur, 1))

\* The value idArtistsArray holds after the inner try/catch, and whether the
\* catch logged a parse error.
ParseIdArtists(raw) ==
    IF raw = Undefined \/ raw = <<>>
    THEN [kind |-> "array", val |-> <<>>, logged |-> FALSE]
    ELSE LET p == JSONparse(ReplaceQuotes(raw))
         IN  IF p.ok
             THEN [kind |-> p.kind, val |-> p.val, logged |-> FALSE]
             ELSE [kind |-> "array",
                   val |-> <<[kind |-> "string", val |-> raw]>>,
                   logged |-> TRUE]

\* Faulty variant of AddIds: the element is added as read, not trimmed.
RECURSIVE AddIds_Untrimmed(_, _)
AddIds_Untrimmed(elems, ids) ==
    IF elems = <<>> THEN [ids |-> ids, threw |-> FALSE]
    ELSE IF Head(elems).kind # "string" THEN [ids |-> ids, threw |-> TRUE]
    ELSE AddIds_Untrimmed(Tail(elems),
                          IF Trim(Head(elems).val) # <<>>
                          THEN ids \cup {Head(elems).val} ELSE ids)

\* Faulty variant of AddIds: the set is started afresh with each element.
RECURSIVE AddIds_Fresh(_, _)
AddIds_Fresh(elems, ids) ==
    IF elems = <<>> THEN [ids |-> ids, threw |-> FALSE]
    ELSE IF Head(elems).kind # "string" THEN [ids |-> ids, threw |-> TRUE]
    ELSE LET trimmed == Trim(Head(elems).val)
         IN  AddIds_Fresh(Tail(elems), IF trimmed # <<>> THEN {trimmed} ELSE ids)

\* One round of the forEach callback: id.trim() throws a TypeError unless id
\* is a string.
RECURSIVE AddIds(_, _)
AddIds(elems, ids) ==
    IF elems = <<>> THEN [ids |-> ids, threw |-> FALSE]
    ELSE IF Head(elems).kind # "string" THEN [ids |-> ids, threw |-> TRUE]
    ELSE LET trimmed == Trim(Head(elems).val)
         IN  AddIds(Tail(elems), IF trimmed # <<>> THEN ids \cup {trimmed} ELSE ids)

\* idArtistsArray.forEach(...): a TypeError unless the value is an array.
CollectArtistIds(value, ids) ==
    IF value.kind # "array" THEN [ids |-> ids, threw |-> TRUE]
    ELSE AddIds(value.val, ids)

\* The record with the four derived fields assigned.
Enrich(track) ==
    LET d == parseReleaseDate(IF track.release_date \in {Undefined, <<>>}
                              THEN <<>> ELSE track.release_date)
    IN  [name |-> track.name,
         duration_ms |-> track.duration_ms,
         id_artists |-> track.id_artists,
         release_date |-> track.release_date,
         danceability |-> track.danceability,
         release_year |-> d.year,
         release_month |-> d.month,
         release_day |-> d.day,
         danceability_level |-> transformDanceability(track.danceability)]

\* Faulty variant of FilterCatch: the catch gives the error to the callback.
FilterCatch_Propagates(ids, logs) ==
    [err |-> TRUE, out |-> <<>>, ids |-> ids,
     logs |-> Append(logs, "Error in FilterTransform"), threw |-> TRUE]

\* What the outer catch of FilterTransform._transform hands to the callback.
FilterCatch(ids, logs) ==
    [err |-> FALSE, out |-> <<>>, ids |-> ids,
     logs |-> Append(logs, "Error in FilterTransform"), threw |-> TRUE]

\* Faulty variant of FilterTransform_chunk: the derived fields are written
\* before the row is filtered.
FilterTransform_chunk_DeriveFirst(track, ids, minDur) ==
    Enrich(track)

\* The row object after the handler has returned: the early return and the
\* exception of forEach both come before the four assignments.
FilterTransform_chunk(track, ids, minDur) ==
    IF FailsFilter(track, minDur) THEN track
    ELSE IF CollectArtistIds(ParseIdArtists(track.id_artists), ids).threw THEN track
    ELSE Enrich(track)

\* The whole handler: the error and the record given to the callback, the set
\* afterwards and the lines logged.
FilterTransform_transform(track, ids, minDur) ==
    IF FailsFilter(track, minDur)
    THEN [err |-> FALSE, out |-> <<>>, ids |-> ids, logs |-> <<>>, threw |-> FALSE]
    ELSE LET parsed == ParseIdArtists(track.id_artists)
             logs == IF parsed.logged THEN <<"Error parsing id_artists">> ELSE <<>>
             added == CollectArtistIds(parsed, ids)
         IN  IF added.threw
             THEN FilterCatch(added.ids, logs)
             ELSE [err |-> FALSE, out |-> <<Enrich(track)>>, ids |-> added.ids,
                   logs |-> logs, threw |-> FALSE]

\* ------------------------------------------------------------------------
\* ArtistFilterTransform._transform
\* ------------------------------------------------------------------------

\* Faulty variant of ArtistFilterTransform._transform: the id is trimmed
\* before the lookup.
ArtistFilterTransform_transform_Trimmed(artist, allowedArtistIds) ==
    IF Trim(artist.id) \in allowedArtistIds
    THEN [err |-> FALSE, out |-> <<artist>>]
    ELSE [err |-> FALSE, out |-> <<>>]

ArtistFilterTransform_transform(artist, allowedArtistIds) ==
    IF artist.id \in allowedArtistIds
    THEN [err |-> FALSE, out |-> <<artist>>]
    ELSE [err |-> FALSE, out |-> <<>>]

\* ------------------------------------------------------------------------
\* Inputs: the rows the CSV decoder can hand to the stages
\* ------------------------------------------------------------------------

\* Rows read from one file, at most.
MaxTracks == 2

MaxArtists == 2

\* config.transform.minDuration
DefaultMinDuration == 60000

MinDurations == {DefaultMinDuration, DefaultMinDuration + 1}

Track(n, d, a, r, v) ==
    [name |-> n, duration_ms |-> d, id_artists |-> a, release_date |-> r,
     danceability |-> v]

TrackRows ==
    { \* ['a','b'], duration exactly the default minimum, one millisecond
      \* short of the other minimum
      Track(<<"A">>, <<"6", "0", "0", "0", "0">>,
            <<"[", "'", "a", "'", ",", "'", "b", "'", "]">>,
            <<"1", "9", "2", "9">>, <<"0", ".", "5">>),
      \* blank name
      Track(<<" ">>, <<"6", "0", "0", "0", "1">>,
            <<"[", "'", "c", "'", "]">>, Undefined, Undefined),
      \* duration that is no number
      Track(<<"B">>, <<"x">>,
            <<"[", "'", "c", "'", "]">>, <<>>, <<"0", ".", "7">>),
      \* [' a', '']: an element to trim and an empty one
      Track(<<" ", "C", " ">>, <<"6", "0", "0", "0", "1">>,
            <<"[", "'", " ", "a", "'", ",", " ", "'", "'", "]">>,
            <<"1", "/", "2", "/", "1", "9", "2", "9">>, <<"-", "1">>),
      \* text JSON.parse rejects
      Track(<<"D">>, <<"6", "0", "0", "0", "1">>,
            <<"b", " ">>, <<"x">>, <<"1", ".", "5">>),
      \* ['b',1]: a list whose second element is no string
      Track(<<"E">>, <<"6", "0", "0", "0", "1">>,
            <<"[", "'", "b", "'", ",", "1", "]">>, <<"1", "9", "2", "9">>, <<"x">>),
      \* 7: text that decodes to a number
      Track(<<"F">>, <<"6", "0", "0", "0", "1">>,
            <<"7">>, Undefined, <<>>),
      \* no artists at all
      Track(<<"G">>, <<"6", "0", "0", "0", "0">>,
            <<>>, <<"\t", "1", "9", "2", "9">>, <<"1">>) }

Artist(i, n) == [id |-> i, name |-> n]

ArtistRows ==
    { Artist(<<"a">>, <<"N">>), Artist(<<"b">>, <<"N">>),
      Artist(<<" ", "a">>, <<"M">>) }

\* ------------------------------------------------------------------------
\* State
\* ------------------------------------------------------------------------

VARIABLES
    pc,               \* where runTransformation stands
    status,           \* the promise runTransformation returned
    minDuration,      \* FilterTransform.minDuration
    uniqueArtistIds,  \* FilterTransform.uniqueArtistIds
    artistFilter,     \* the set object ArtistFilterTransform was given
    trackPipeline,    \* the first processCSV call
    tracksInput,      \* rows of the track file decoded so far
    tracksOutput,     \* rows given to the track sink, each with its input row number
    artistPipeline,   \* the second processCSV call
    artistsInput,     \* rows of the artist file decoded so far
    artistsOutput,    \* rows given to the artist sink, each with its input row number
    failure,          \* what made a pipeline reject
    log               \* the lines logged, in order

\* A field parser called on its own
VARIABLES
    parserFn,         \* the parser called
    parserArg,        \* its argument
    parserDone,       \* whether it has returned
    parserResult      \* what it returned

\* FilterTransform instances used side by side
VARIABLES
    stageMin,         \* minDuration of each instance
    stageIds,         \* uniqueArtistIds of each instance
    stageInput,       \* the rows each instance was given
    stageChunks,      \* the row objects as each handler left them
    stageOutput       \* the rows each instance emitted, with their row numbers

\* uploadToS3.ts
VARIABLES
    retries,          \* the retries argument of uploadFileToS3
    fileState,        \* each local file: "ok", "missing" or "unreadable"
    upc,              \* where each uploadFileToS3 call stands
    attempt,          \* the loop variable of each call
    outcomes,         \* the s3.upload calls each call made, in order
    callStatus,       \* the promise each call returned
    upRun,            \* the promise runUploads returned
    uploadLog         \* the lines logged, in order

\* config/config.ts
VARIABLES
    env,              \* process.env, the required variables
    configState,      \* the evaluation of the module
    configError,      \* the variable the thrown error names
    started,          \* whether a module importing the config has run
    LOCAL_TEST,       \* process.env.LOCAL_TEST
    localTest,        \* config.localTest
    csvSource         \* where downloadCSVFromS3 read the CSV from

\* loadCSVIntoTable and ensureDatabaseExists
VARIABLES
    variant,          \* the module loadCSVIntoTable is taken from
    loads,            \* calls of loadCSVIntoTable started so far
    dbExists,         \* whether the target database exists
    created,          \* CREATE DATABASE statements that succeeded
    csv,              \* the decoded CSV: headers and records
    lpc,              \* where the call stands
    adminClient,      \* the client of ensureDatabaseExists
    pgClient,         \* the client of loadCSVIntoTable
    sql,              \* the statements the call has issued, in order
    nextRecord,       \* the record the insert loop is at
    insertedRows,     \* processedCount
    skippedRows,      \* skippedCount
    fault,            \* the operation that failed
    loadStatus,       \* the promise the call returned, or the process exit
    loaderLog         \* the lines the call logged, in order

\* The concurrent loader: workers sharing one cursor
VARIABLES
    recordList,       \* how each record fares: conversion and insert attempts
    current,          \* the shared cursor
    wpc,              \* where each worker stands
    index,            \* the record each worker holds
    attempts,         \* the attempts counter of each worker's retryInsert
    claims,           \* how often each record index was claimed
    tried,            \* how often each record's insert was tried
    insertedBy,       \* the workers whose insert of each record succeeded
    processedCount,   \* processedCount
    skippedCount,     \* skippedCount
    allSettled        \* whether Promise.all of the workers has resolved

pipelineVars ==
    <<pc, status, minDuration, uniqueArtistIds, artistFilter, trackPipeline,
      tracksInput, tracksOutput, artistPipeline, artistsInput, artistsOutput,
      failure, log>>

parserVars == <<parserFn, parserArg, parserDone, parserResult>>

stageVars == <<stageMin, stageIds, stageInput, stageChunks, stageOutput>>

uploadVars ==
    <<retries, fileState, upc, attempt, outcomes, callStatus, upRun, uploadLog>>

configVars == <<env, configState, configError, started, LOCAL_TEST, localTest, csvSource>>

loaderVars ==
    <<variant, loads, dbExists, created, csv, lpc, adminClient, pgClient, sql,
      nextRecord, insertedRows, skippedRows, fault, loadStatus, loaderLog>>

workerVars ==
    <<recordList, current, wpc, index, attempts, claims, tried, insertedBy,
      processedCount, skippedCount, allSettled>>

vars ==
    <<pipelineVars, parserVars, stageVars, uploadVars, configVars, loaderVars,
      workerVars>>

\* The parts of the program a run does not use stay as they are.
ParsersIdle ==
    /\ parserFn = "none"
    /\ parserArg = <<>>
    /\ parserDone = FALSE
    /\ parserResult = <<>>

StagesIdle ==
    /\ stageMin = <<>>
    /\ stageIds = <<>>
    /\ stageInput = <<>>
    /\ stageChunks = <<>>
    /\ stageOutput = <<>>

UploadsIdle ==
    /\ retries = 0
    /\ fileState = <<>>
    /\ upc = <<>>
    /\ attempt = <<>>
    /\ outcomes = <<>>
    /\ callStatus = <<>>
    /\ upRun = "idle"
    /\ uploadLog = <<>>

ConfigIdle ==
    /\ env = <<>>
    /\ configState = "idle"
    /\ configError = "none"
    /\ started = FALSE
    /\ LOCAL_TEST = "unset"
    /\ localTest = "none"
    /\ csvSource = "none"

LoaderIdle ==
    /\ variant = "none"
    /\ loads = 0
    /\ dbExists = FALSE
    /\ created = 0
    /\ csv = <<>>
    /\ lpc = "idle"
    /\ adminClient = "none"
    /\ pgClient = "none"
    /\ sql = <<>>
    /\ nextRecord = 0
    /\ insertedRows = 0
    /\ skippedRows = 0
    /\ fault = "none"
    /\ loadStatus = "none"
    /\ loaderLog = <<>>

WorkersIdle ==
    /\ recordList = <<>>
    /\ current = 0
    /\ wpc = <<>>
    /\ index = <<>>
    /\ attempts = <<>>
    /\ claims = <<>>
    /\ tried = <<>>
    /\ insertedBy = <<>>
    /\ processedCount = 0
    /\ skippedCount = 0
    /\ allSettled = FALSE

Init ==
    /\ ParsersIdle /\ StagesIdle /\ UploadsIdle /\ ConfigIdle
    /\ LoaderIdle /\ WorkersIdle
    /\ pc = "start"
    /\ status = "pending"
    /\ minDuration \in MinDurations
    /\ uniqueArtistIds = {}
    /\ artistFilter = "none"
    /\ trackPipeline = "idle"
    /\ tracksInput = <<>>
    /\ tracksOutput = <<>>
    /\ artistPipeline = "idle"
    /\ artistsInput = <<>>
    /\ artistsOutput = <<>>
    /\ failure = "none"
    /\ log = <<>>

\* ------------------------------------------------------------------------
\* The stream pipeline of processCSV
\* ------------------------------------------------------------------------

\* Faulty variant of Push: the newest records come first.
Push_Front(output, row, records) ==
    [k \in 1..Len(records) |-> [src |-> row, rec |-> records[k]]] \o output

\* callback(null, record): the records go to the sink in the order pushed.
Push(output, row, records) ==
    output \o [k \in 1..Len(records) |-> [src |-> row, rec |-> records[k]]]

\* The set the artist stage reads: the object it was constructed with.
AllowedArtistIds == IF artistFilter = "uniqueArtistIds" THEN uniqueArtistIds ELSE {}

\* Faulty variant of Settled: processCSV is not awaited.
Settled_NoAwait(pipeline) == pipeline \in {"flowing", "finished", "failed"}

\* Faulty variant of Rejected: a rejected processCSV is not noticed.
Rejected_Ignored(pipeline) == FALSE

\* `await processCSV(...)`: the statements after it run once the pipeline has
\* settled, and the catch block runs if it rejected.
Settled(pipeline) == pipeline \in {"finished", "failed"}

Rejected(pipeline) == pipeline = "failed"

\* catch (error) { logger.error(`Error running transformation: ...`) }
CatchError ==
    /\ log' = Append(log, "Error running transformation:")
    /\ pc' = "done"
    /\ status' = "resolved"

\* runTransformation up to its first await: the track stage is constructed
\* and processCSV either throws in fs.statSync or starts the pipeline.
Start ==
    /\ UNCHANGED <<parserVars, stageVars, uploadVars, configVars, loaderVars, workerVars>>
    /\ pc = "start"
    /\ pc' = "awaitTracks"
    /\ \E ok \in BOOLEAN :
         IF ok
         THEN trackPipeline' = "flowing" /\ failure' = failure
         ELSE trackPipeline' = "failed" /\ failure' = "stat"
    /\ UNCHANGED <<status, minDuration, uniqueArtistIds, artistFilter, tracksInput,
                   tracksOutput, artistPipeline, artistsInput, artistsOutput, log>>

\* One decoded track row goes through FilterTransform._transform.
TrackTransform ==
    /\ UNCHANGED <<parserVars, stageVars, uploadVars, configVars, loaderVars, workerVars>>
    /\ trackPipeline = "flowing"
    /\ Len(tracksInput) < MaxTracks
    /\ \E row \in TrackRows :
         LET r == FilterTransform_transform(row, uniqueArtistIds, minDuration)
         IN  /\ tracksInput' = Append(tracksInput, row)
             /\ uniqueArtistIds' = r.ids
             /\ log' = log \o r.logs
             /\ IF r.err
                THEN /\ trackPipeline' = "failed"
                     /\ failure' = "callback"
                     /\ tracksOutput' = tracksOutput
                ELSE /\ trackPipeline' = trackPipeline
                     /\ failure' = failure
                     /\ tracksOutput' = Push(tracksOutput, Len(tracksInput) + 1, r.out)
    /\ UNCHANGED <<pc, status, minDuration, artistFilter, artistPipeline,
                   artistsInput, artistsOutput>>

\* The track source is exhausted and the sink has flushed.
TrackEnd ==
    /\ UNCHANGED <<parserVars, stageVars, uploadVars, configVars, loaderVars, workerVars>>
    /\ trackPipeline = "flowing"
    /\ trackPipeline' = "finished"
    /\ UNCHANGED <<pc, status, minDuration, uniqueArtistIds, artistFilter, tracksInput,
                   tracksOutput, artistPipeline, artistsInput, artistsOutput,
                   failure, log>>

\* The track source cannot be read or the sink cannot be written.
TrackFail ==
    /\ UNCHANGED <<parserVars, stageVars, uploadVars, configVars, loaderVars, workerVars>>
    /\ trackPipeline = "flowing"
    /\ trackPipeline' = "failed"
    /\ failure' = "io"
    /\ UNCHANGED <<pc, status, minDuration, uniqueArtistIds, artistFilter, tracksInput,
                   tracksOutput, artistPipeline, artistsInput, artistsOutput, log>>

\* runTransformation between its two awaits.
AfterTracks ==
    /\ UNCHANGED <<parserVars, stageVars, uploadVars, configVars, loaderVars, workerVars>>
    /\ pc = "awaitTracks"
    /\ Settled(trackPipeline)
    /\ IF Rejected(trackPipeline)
       THEN /\ CatchError
            /\ UNCHANGED <<artistFilter, artistPipeline, failure>>
       ELSE /\ artistFilter' = "uniqueArtistIds"
            /\ pc' = "awaitArtists"
            /\ status' = status
            /\ log' = Append(log, "Transformed tracks saved to:")
            /\ \E ok \in BOOLEAN :
                 IF ok
                 THEN artistPipeline' = "flowing" /\ failure' = failure
                 ELSE artistPipeline' = "failed" /\ failure' = "stat"
    /\ UNCHANGED <<minDuration, uniqueArtistIds, trackPipeline, tracksInput,
                   tracksOutput, artistsInput, artistsOutput>>

\* One decoded artist row goes through ArtistFilterTransform._transform.
ArtistTransform ==
    /\ UNCHANGED <<parserVars, stageVars, uploadVars, configVars, loaderVars, workerVars>>
    /\ artistPipeline = "flowing"
    /\ Len(artistsInput) < MaxArtists
    /\ \E row \in ArtistRows :
         LET r == ArtistFilterTransform_transform(row, AllowedArtistIds)
         IN  /\ artistsInput' = Append(artistsInput, row)
             /\ IF r.err
                THEN /\ artistPipeline' = "failed"
                     /\ failure' = "callback"
                     /\ artistsOutput' = artistsOutput
                ELSE /\ artistPipeline' = artistPipeline
                     /\ failure' = failure
                     /\ artistsOutput' = Push(artistsOutput, Len(artistsInput) + 1, r.out)
    /\ UNCHANGED <<pc, status, minDuration, uniqueArtistIds, artistFilter,
                   trackPipeline, tracksInput, tracksOutput, log>>

ArtistEnd ==
    /\ UNCHANGED <<parserVars, stageVars, uploadVars, configVars, loaderVars, workerVars>>
    /\ artistPipeline = "flowing"
    /\ artistPipeline' = "finished"
    /\ UNCHANGED <<pc, status, minDuration, uniqueArtistIds, artistFilter,
                   trackPipeline, tracksInput, tracksOutput, artistsInput,
                   artistsOutput, failure, log>>

ArtistFail ==
    /\ UNCHANGED <<parserVars, stageVars, uploadVars, configVars, loaderVars, workerVars>>
    /\ artistPipeline = "flowing"
    /\ artistPipeline' = "failed"
    /\ failure' = "io"
    /\ UNCHANGED <<pc, status, minDuration, uniqueArtistIds, artistFilter,
                   trackPipeline, tracksInput, tracksOutput, artistsInput,
                   artistsOutput, log>>

\* runTransformation after its second await.
AfterArtists ==
    /\ UNCHANGED <<parserVars, stageVars, uploadVars, configVars, loaderVars, workerVars>>
    /\ pc = "awaitArtists"
    /\ Settled(artistPipeline)
    /\ IF Rejected(artistPipeline)
       THEN CatchError
       ELSE /\ log' = Append(log, "Transformed artists saved to:")
            /\ pc' = "done"
            /\ status' = "resolved"
    /\ UNCHANGED <<minDuration, uniqueArtistIds, artistFilter, trackPipeline,
                   tracksInput, tracksOutput, artistPipeline, artistsInput,
                   artistsOutput, failure>>

Next ==
    \/ Start
    \/ TrackTransform
    \/ TrackEnd
    \/ TrackFail
    \/ AfterTracks
    \/ ArtistTransform
    \/ ArtistEnd
    \/ ArtistFail
    \/ AfterArtists

Spec == Init /\ [][Next]_vars

\* The exit code of the process once the promise of runTransformation has
\* settled: process.exit is never called and process.exitCode never set, and
\* a rejection would be handled by the catch of line 36.
ExitCode(settled) == 0

\* ------------------------------------------------------------------------
\* services/csvLoader.ts: getColumnType and convertValue
\* ------------------------------------------------------------------------

IntegerColumns ==
    {"popularity", "duration_ms", "release_year", "release_month",
     "release_day", "key", "mode", "time_signature", "followers"}

DoubleColumns ==
    {"danceability", "energy", "loudness", "speechiness", "acousticness",
     "instrumentalness", "liveness", "valence", "tempo"}

TextColumns ==
    {"id", "name", "artists", "release_date", "danceability_level"}

ArrayColumns == {"id_artists", "genres"}

getColumnType(column) ==
    IF column \in IntegerColumns THEN "INTEGER"
    ELSE IF column \in DoubleColumns THEN "DOUBLE PRECISION"
    ELSE IF column = "explicit" THEN "BOOLEAN"
    ELSE IF column \in ArrayColumns THEN "TEXT[]"
    ELSE "TEXT"

\* The values convertValue returns: null, a number, a boolean or a string.
Null == [t |-> "null", v |-> <<>>]

Number(x) == [t |-> "number", v |-> x]

Boolean(b) == [t |-> "boolean", v |-> b]

Text(str) == [t |-> "string", v |-> str]

\* value.replace(/^\s*\[\s*/, "{")
ReplaceOpening(value) ==
    LET t == TrimStart(value)
    IN  IF t # <<>> /\ Head(t) = "[" THEN <<"{">> \o TrimStart(Tail(t)) ELSE value

\* value.replace(/\s*\]\s*$/, "}")
ReplaceClosing(value) ==
    LET t == TrimEnd(value)
    IN  IF t # <<>> /\ t[Len(t)] = "]"
        THEN TrimEnd(SubSeq(t, 1, Len(t) - 1)) \o <<"}">>
        ELSE value

\* value.replace(/'/g, "")
RemoveQuotes(value) == SelectSeq(value, LAMBDA c : c # "'")

\* The signed decimal prefix parseInt and parseFloat read: the sign, the
\* digits and, for parseFloat, the fraction.
NumericPrefix(value, fraction) ==
    LET t == TrimStart(value)
        neg == t # <<>> /\ Head(t) = "-"
        u == IF t # <<>> /\ Head(t) \in {"-", "+"} THEN Tail(t) ELSE t
        e == DigitsEnd(u, 1)
        whole == SubSeq(u, 1, e - 1)
        f == IF fraction /\ e <= Len(u) /\ u[e] = "."
             THEN DigitsEnd(u, e + 1) ELSE e + 1
        frac == SubSeq(u, e + 1, f - 1)
    IN  IF Len(whole) + Len(frac) = 0 THEN NaN
        ELSE Num((IF neg THEN -1 ELSE 1) * DigitsValue(whole \o frac), Pow10(Len(frac)))

\* parseInt(value, 10)
parseInt(value) == NumericPrefix(value, FALSE)

\* parseFloat(value), for texts without exponent
parseFloat(value) == NumericPrefix(value, TRUE)

\* value.toLowerCase(), for the letters of the texts tried
toLowerCase(value) ==
    [i \in 1..Len(value) |->
        CASE value[i] = "T" -> "t"
          [] value[i] = "R" -> "r"
          [] value[i] = "U" -> "u"
          [] value[i] = "E" -> "e"
          [] OTHER -> value[i]]

\* Faulty variant of convertValue: an empty field of a text column stays "".
convertValue_EmptyTextKept(value, column) ==
    LET type == getColumnType(column)
    IN  IF value # <<>> /\ column \in {"id_artists", "genres"}
        THEN Text(RemoveQuotes(ReplaceClosing(ReplaceOpening(value))))
        ELSE IF value = <<>>
        THEN IF type \in {"TEXT", "TEXT[]"} THEN Text(value) ELSE Null
        ELSE IF type = "INTEGER"
        THEN IF isNaN(parseInt(value)) THEN Null ELSE Number(parseInt(value))
        ELSE IF type = "DOUBLE PRECISION"
        THEN IF isNaN(parseFloat(value)) THEN Null ELSE Number(parseFloat(value))
        ELSE IF type = "BOOLEAN"
        THEN IF toLowerCase(value) = <<"t", "r", "u", "e">> \/ value = <<"1">>
             THEN Boolean(TRUE)
             ELSE IF toLowerCase(value) = <<"f", "a", "l", "s", "e">> \/ value = <<"0">>
             THEN Boolean(FALSE)
             ELSE Null
        ELSE Text(value)

convertValue(value, column) ==
    LET type == getColumnType(column)
    IN  IF value # <<>> /\ column \in {"id_artists", "genres"}
        THEN Text(RemoveQuotes(ReplaceClosing(ReplaceOpening(value))))
        ELSE IF value = <<>> THEN Null
        ELSE IF type = "INTEGER"
        THEN IF isNaN(parseInt(value)) THEN Null ELSE Number(parseInt(value))
        ELSE IF type = "DOUBLE PRECISION"
        THEN IF isNaN(parseFloat(value)) THEN Null ELSE Number(parseFloat(value))
        ELSE IF type = "BOOLEAN"
        THEN IF toLowerCase(value) = <<"t", "r", "u", "e">> \/ value = <<"1">>
             THEN Boolean(TRUE)
             ELSE IF toLowerCase(value) = <<"f", "a", "l", "s", "e">> \/ value = <<"0">>
             THEN Boolean(FALSE)
             ELSE Null
        ELSE Text(value)

\* The pipeline, for the runs that do not use it.
PipelineIdle ==
    /\ pc = "start"
    /\ status = "pending"
    /\ minDuration = DefaultMinDuration
    /\ uniqueArtistIds = {}
    /\ artistFilter = "none"
    /\ trackPipeline = "idle"
    /\ tracksInput = <<>>
    /\ tracksOutput = <<>>
    /\ artistPipeline = "idle"
    /\ artistsInput = <<>>
    /\ artistsOutput = <<>>
    /\ failure = "none"
    /\ log = <<>>

\* ------------------------------------------------------------------------
\* The field parsers called on their own
\* ------------------------------------------------------------------------

\* Longest danceability text tried.
MaxDanceLen == 3

DanceChars == {"0", "1", "4", "5", "6", "9", ".", "-", " ", "x"}

DanceInputs ==
    {Undefined} \cup UNION {[1..n -> DanceChars] : n \in 0..MaxDanceLen}

DateYears ==
    { <<"1", "9", "2", "9">>, <<"1", "9", "2">>, <<"1", "9", "x", "9">>,
      <<"1", "9", "\t", "2", "9">>, <<"1", "9", " ", "2", "9">> }

DateParts == { <<"1">>, <<"1", "2">>, <<"1", "2", "3">>, <<"x">>, <<>> }

DatePads == { <<>>, <<" ">>, <<"\t">> }

DateBodies ==
    {y \o <<"-">> \o m \o <<"-">> \o d : y \in DateYears, m \in DateParts, d \in DateParts}
    \cup {d \o <<"/">> \o m \o <<"/">> \o y : y \in DateYears, m \in DateParts, d \in DateParts}
    \cup DateYears

DateInputs == {a \o b \o c : a \in DatePads, b \in DateBodies, c \in DatePads}

\* Longest list tried as the value of an array column.
MaxListLen == 2

ListElems == { <<"a">>, <<"b">> }

ElemLists == UNION {[1..n -> ListElems] : n \in 0..MaxListLen}

\* The elements joined by sep, each between q's.
RECURSIVE Join(_, _, _)
Join(elems, q, sep) ==
    IF elems = <<>> THEN <<>>
    ELSE IF Len(elems) = 1 THEN q \o Head(elems) \o q
    ELSE q \o Head(elems) \o q \o sep \o Join(Tail(elems), q, sep)

\* A bracketed single-quoted list such as ['a','b'], with blanks around the
\* brackets.
ListText(elems, before, inner, after) ==
    before \o <<"[">> \o inner \o Join(elems, <<"'">>, <<",">>) \o inner
        \o <<"]">> \o after

Blanks == { <<>>, <<" ">> }

ConvertValues ==
    {ListText(l, b, i, a) : l \in ElemLists, b \in Blanks, i \in Blanks, a \in Blanks}
    \cup { <<>>, <<"x">>, <<"7">>, <<" ", "7", "x">>, <<"1", ".", "5">>, <<"-">>,
           <<"T", "R", "U", "E">>, <<"0">>, <<"a", "]">>, <<"'", "a", "'">> }

ConvertColumns ==
    {"id", "popularity", "danceability", "explicit", "id_artists", "genres",
     "track_href"}

ParsersInit ==
    /\ PipelineIdle /\ StagesIdle /\ UploadsIdle /\ ConfigIdle
    /\ LoaderIdle /\ WorkersIdle
    /\ parserDone = FALSE
    /\ parserResult = <<>>
    /\ \/ parserFn = "transformDanceability" /\ parserArg \in DanceInputs
       \/ parserFn = "parseReleaseDate" /\ parserArg \in DateInputs
       \/ parserFn = "convertValue" /\ parserArg \in ConvertValues \X ConvertColumns

CallTransformDanceability ==
    /\ parserFn = "transformDanceability"
    /\ ~parserDone
    /\ parserDone' = TRUE
    /\ parserResult' = transformDanceability(parserArg)
    /\ UNCHANGED <<parserFn, parserArg, pipelineVars, stageVars, uploadVars, configVars, loaderVars, workerVars>>

CallParseReleaseDate ==
    /\ parserFn = "parseReleaseDate"
    /\ ~parserDone
    /\ parserDone' = TRUE
    /\ parserResult' = parseReleaseDate(parserArg)
    /\ UNCHANGED <<parserFn, parserArg, pipelineVars, stageVars, uploadVars, configVars, loaderVars, workerVars>>

CallConvertValue ==
    /\ parserFn = "convertValue"
    /\ ~parserDone
    /\ parserDone' = TRUE
    /\ parserResult' = convertValue(parserArg[1], parserArg[2])
    /\ UNCHANGED <<parserFn, parserArg, pipelineVars, stageVars, uploadVars, configVars, loaderVars, workerVars>>

ParsersNext ==
    \/ CallTransformDanceability
    \/ CallParseReleaseDate
    \/ CallConvertValue

SpecParsers == ParsersInit /\ [][ParsersNext]_vars

\* ------------------------------------------------------------------------
\* Properties
\* ------------------------------------------------------------------------

\* Input row numbers of the rows in an output.
Sources(output) == {output[k].src : k \in 1..Len(output)}

EmittedTracks == Sources(tracksOutput)

EmittedArtists == Sources(artistsOutput)

\* name.trim() is non-empty and Number(duration_ms) is a number >= min.
PassesNameAndDuration(track, min) ==
    /\ track.name # Undefined
    /\ Trim(track.name) # <<>>
    /\ ~isNaN(ToNumber(track.duration_ms))
    /\ Le(Num(min, 1), ToNumber(track.duration_ms))

\* The trimmed string elements of the list id_artists decodes to.
ReferencedIds(track) ==
    LET parsed == ParseIdArtists(track.id_artists)
    IN  IF parsed.kind # "array" THEN {}
        ELSE {Trim(parsed.val[k].val) :
                k \in {n \in 1..Len(parsed.val) : parsed.val[n].kind = "string"}}

\* Processing the row raises an exception inside the handler's try block.
Throws(track, min) ==
    /\ ~FailsFilter(track, min)
    /\ CollectArtistIds(ParseIdArtists(track.id_artists), {}).threw

\* C1: a track row is emitted if and only if its trimmed name is non-empty
\* and Number(duration_ms) is a number greater than or equal to minDuration.
C1_EmittedIffNameAndDuration ==
    \A i \in 1..Len(tracksInput) :
        (i \in EmittedTracks) <=> PassesNameAndDuration(tracksInput[i], minDuration)

\* C2: after a full run every artist in the artist output has an id that the
\* id_artists list of at least one emitted track contains.
C2_ArtistsReferencedByEmittedTrack ==
    pc = "done" =>
        \A k \in 1..Len(artistsOutput) :
            \E j \in 1..Len(tracksOutput) :
                artistsOutput[k].rec.id \in ReferencedIds(tracksOutput[j].rec)

\* C3: an artist row is processed only once the track pipeline has completed,
\* and from the first artist row on no track row is processed and
\* uniqueArtistIds does not change.
C3_ArtistsOnlyAfterTracksComplete ==
    [][/\ (artistsInput' # artistsInput) =>
            /\ trackPipeline = "finished"
            /\ tracksInput' = tracksInput
            /\ uniqueArtistIds' = uniqueArtistIds
       /\ (artistsInput # <<>>) =>
            /\ tracksInput' = tracksInput
            /\ uniqueArtistIds' = uniqueArtistIds]_vars

C3_Witness ==
    /\ artistsInput # <<>>
    /\ tracksOutput # <<>>
    /\ uniqueArtistIds # {}
    /\ EmittedArtists # {}

\* C4: if the track pipeline fails, the artist pipeline is never started and
\* nothing is written to the artist output; runTransformation ends resolved,
\* its last log line being 'Error running transformation:'.
C4_TrackFailureStopsArtists ==
    trackPipeline = "failed" =>
        /\ artistPipeline = "idle"
        /\ artistFilter = "none"
        /\ artistsInput = <<>>
        /\ artistsOutput = <<>>
        /\ status # "rejected"
        /\ pc = "done" =>
             /\ status = "resolved"
             /\ log # <<>>
             /\ log[Len(log)] = "Error running transformation:"

C4_Witness ==
    /\ trackPipeline = "failed"
    /\ failure = "io"
    /\ tracksOutput # <<>>
    /\ pc = "done"

\* C5: every track that passes the name and duration filter is emitted,
\* whatever its id_artists holds, and when id_artists cannot be decoded the
\* whole raw string is the one artist ID taken from it.
C5_IdArtistsNeverDropsRow ==
    \A i \in 1..Len(tracksInput) :
        LET track == tracksInput[i]
        IN  PassesNameAndDuration(track, minDuration) =>
                /\ i \in EmittedTracks
                /\ (/\ track.id_artists \notin {Undefined, <<>>}
                    /\ ~JSONparse(ReplaceQuotes(track.id_artists)).ok
                    /\ Trim(track.id_artists) # <<>>)
                   => Trim(track.id_artists) \in uniqueArtistIds

\* C6: no exception raised while a row is processed reaches the stream as an
\* error: a pipeline fails only on I/O, the row that raised is dropped, and
\* every later row is emitted or dropped by the same rule.
C6_ExceptionsDropOneRowOnly ==
    LET raised == {i \in 1..Len(tracksInput) : Throws(tracksInput[i], minDuration)}
    IN  /\ failure # "callback"
        /\ raised \cap EmittedTracks = {}
        /\ \A j \in 1..Len(tracksInput) :
             (\E i \in raised : i < j) =>
                ((j \in EmittedTracks) <=>
                    /\ PassesNameAndDuration(tracksInput[j], minDuration)
                    /\ j \notin raised)

C6_Witness ==
    /\ trackPipeline = "finished"
    /\ Len(tracksInput) = 2
    /\ Throws(tracksInput[1], minDuration)
    /\ EmittedTracks = {2}

\* C7: an artist row is emitted if and only if its id is a member of the set
\* the stage was constructed with, and an emitted row equals the row read.
C7_ArtistEmittedIffAllowed ==
    /\ \A j \in 1..Len(artistsInput) :
         (j \in EmittedArtists) <=> (artistsInput[j].id \in AllowedArtistIds)
    /\ \A k \in 1..Len(artistsOutput) :
         artistsOutput[k].rec = artistsInput[artistsOutput[k].src]

C7_Witness ==
    /\ Len(artistsInput) = 2
    /\ EmittedArtists = {2}
    /\ artistsInput[1].id = <<" ", "a">>
    /\ <<"a">> \in AllowedArtistIds

\* C8: when the track stream has ended, uniqueArtistIds holds every trimmed,
\* non-empty element of the id_artists list of every emitted track, and no
\* member is empty or untrimmed.
C8_AccumulatorHoldsReferencedIds ==
    trackPipeline = "finished" =>
        /\ \A k \in 1..Len(tracksOutput) :
             \A id \in ReferencedIds(tracksOutput[k].rec) :
                 id # <<>> => id \in uniqueArtistIds
        /\ \A id \in uniqueArtistIds : id # <<>> /\ Trim(id) = id

C8_Witness ==
    /\ trackPipeline = "finished"
    /\ Len(tracksOutput) = 2
    /\ <<"a">> \in ReferencedIds(tracksOutput[1].rec)
    /\ <<"a">> \in ReferencedIds(tracksOutput[2].rec)
    /\ <<>> \in ReferencedIds(tracksOutput[2].rec)
    /\ uniqueArtistIds = {<<"a">>, <<"b">>}

\* The rows of an output are in the order of the input, each at most once.
InInputOrder(output, input) ==
    /\ \A k \in 1..Len(output) : output[k].src \in 1..Len(input)
    /\ \A k, l \in 1..Len(output) : k < l => output[k].src < output[l].src

\* C9: in both stages the emitted rows keep their input order, and a row the
\* stage keeps is in the output as soon as its handler has returned.
C9_OutputKeepsInputOrder ==
    /\ InInputOrder(tracksOutput, tracksInput)
    /\ InInputOrder(artistsOutput, artistsInput)
    /\ \A i \in 1..Len(tracksInput) :
         (/\ ~FailsFilter(tracksInput[i], minDuration)
          /\ ~Throws(tracksInput[i], minDuration)) => i \in EmittedTracks
    /\ \A j \in 1..Len(artistsInput) :
         artistsInput[j].id \in AllowedArtistIds => j \in EmittedArtists

C9_Witness ==
    /\ Len(tracksOutput) = 2
    /\ Len(artistsOutput) = 2
    /\ artistsOutput[1].rec # artistsOutput[2].rec
    /\ tracksOutput[1].rec # tracksOutput[2].rec

\* C10: the danceability level is the empty string for an absent or empty
\* value, for a value that is no number, and for every number below 0 or
\* above 1.
C10_OutOfRangeDanceabilityIsEmpty ==
    \A k \in 1..Len(tracksOutput) :
        LET value == tracksOutput[k].rec.danceability
            num == ToNumber(value)
        IN  (\/ value \in {Undefined, <<>>}
             \/ isNaN(num)
             \/ Lt(num, Num(0, 1))
             \/ Lt(Num(1, 1), num))
            => tracksOutput[k].rec.danceability_level = ""

\* ------------------------------------------------------------------------
\* FilterTransform instances side by side
\* ------------------------------------------------------------------------

\* Rows the instances handle, all together.
MaxStageRows == 3

Instances == {1, 2}

StageRowsHandled ==
    Len(stageInput[1]) + Len(stageInput[2])

StagesInit ==
    /\ PipelineIdle /\ ParsersIdle /\ UploadsIdle /\ ConfigIdle
    /\ LoaderIdle /\ WorkersIdle
    /\ stageMin \in [Instances -> MinDurations]
    /\ stageIds = [i \in Instances |-> {}]
    /\ stageInput = [i \in Instances |-> <<>>]
    /\ stageChunks = [i \in Instances |-> <<>>]
    /\ stageOutput = [i \in Instances |-> <<>>]

\* Instance i handles its next row.
StageTransform(i) ==
    /\ StageRowsHandled < MaxStageRows
    /\ \E row \in TrackRows :
         LET r == FilterTransform_transform(row, stageIds[i], stageMin[i])
         IN  /\ stageInput' = [stageInput EXCEPT ![i] = Append(@, row)]
             /\ stageChunks' = [stageChunks EXCEPT
                    ![i] = Append(@, FilterTransform_chunk(row, stageIds[i], stageMin[i]))]
             /\ stageIds' = [stageIds EXCEPT ![i] = r.ids]
             /\ stageOutput' = [stageOutput EXCEPT
                    ![i] = IF r.err THEN @
                           ELSE Push(@, Len(stageInput[i]) + 1, r.out)]
    /\ UNCHANGED <<stageMin, pipelineVars, parserVars, uploadVars, configVars, loaderVars, workerVars>>

StagesNext == \E i \in Instances : StageTransform(i)

SpecStages == StagesInit /\ [][StagesNext]_vars

DerivedFields ==
    {"release_year", "release_month", "release_day", "danceability_level"}

\* C13: a row FilterTransform drops is, after the handler, the row that was
\* received; only the rows given downstream carry release_year,
\* release_month, release_day and danceability_level.
C13_DroppedRowsUntouched ==
    \A i \in Instances :
        \A k \in 1..Len(stageInput[i]) :
            IF k \in Sources(stageOutput[i])
            THEN /\ DerivedFields \subseteq DOMAIN stageChunks[i][k]
                 /\ \E n \in 1..Len(stageOutput[i]) :
                      /\ stageOutput[i][n].src = k
                      /\ stageOutput[i][n].rec = stageChunks[i][k]
            ELSE /\ DOMAIN stageChunks[i][k] = DOMAIN stageInput[i][k]
                 /\ \A f \in DOMAIN stageInput[i][k] :
                      stageChunks[i][k][f] = stageInput[i][k][f]

\* One row dropped by the filter, one dropped by the exception of forEach and
\* one emitted, in one instance.
C13_Witness ==
    \E i \in Instances :
        /\ Len(stageInput[i]) = 3
        /\ Sources(stageOutput[i]) = {3}
        /\ FailsFilter(stageInput[i][1], stageMin[i])
        /\ Throws(stageInput[i][2], stageMin[i])
        /\ stageChunks[i][3].danceability_level = "Medium"

\* The ids the rows instance i emitted refer to.
OwnEmittedIds(i) ==
    UNION {ReferencedIds(stageOutput[i][n].rec) : n \in 1..Len(stageOutput[i])}

\* The ids the rows instance i was given refer to.
OwnProcessedIds(i) ==
    UNION {ReferencedIds(stageInput[i][k]) : k \in 1..Len(stageInput[i])}

\* C15: in any interleaving, an id in the set of one instance that the other
\* instance has added is referred to by a row the first instance emitted.
C15_NoIdFromTheOtherInstance ==
    \A i, j \in Instances :
        i # j => (stageIds[j] \cap stageIds[i]) \subseteq OwnEmittedIds(j)

\* Each set holds ids of the rows its own instance was given, nothing else.
C15_OwnRowsOnly ==
    \A i \in Instances : stageIds[i] \subseteq OwnProcessedIds(i)

\* ------------------------------------------------------------------------
\* uploadToS3.ts: uploadFileToS3 and runUploads
\* ------------------------------------------------------------------------

\* retries = 3, the default of uploadFileToS3
DefaultRetries == 3

\* Largest attempt count given to a call of uploadFileToS3 on its own.
MaxRetries == 3

Files == {"tracks", "artists"}

FileStates == {"ok", "missing", "unreadable"}

LogLine(m, n) == [msg |-> m, k |-> n]

\* Faulty variant of LoopContinues: the loop stops one attempt early.
LoopContinues_OneShort(a, n) == a < n

\* for (let attempt = 1; attempt <= retries; attempt++)
LoopContinues(a, n) == a <= n

\* Faulty variant of ReadFails: the read error is not noticed.
ReadFails_Never(state) == FALSE

\* fsPromises.readFile rejects.
ReadFails(state) == state = "unreadable"

\* Faulty variant of AfterLastFailure: the last error is thrown to the caller.
AfterLastFailure_Throws == "rejected"

\* The loop ends after the last failed attempt and the function returns.
AfterLastFailure == "resolved"

UploadsInit ==
    /\ PipelineIdle /\ ParsersIdle /\ StagesIdle /\ ConfigIdle
    /\ LoaderIdle /\ WorkersIdle
    /\ fileState \in [Files -> FileStates]
    /\ attempt = [f \in Files |-> 0]
    /\ outcomes = [f \in Files |-> <<>>]
    /\ uploadLog = [f \in Files \cup {"runUploads"} |-> <<>>]
    /\ \/ /\ upRun = "awaiting"
          /\ retries = [f \in Files |-> DefaultRetries]
          /\ upc = [f \in Files |-> "access"]
          /\ callStatus = [f \in Files |-> "pending"]
       \/ /\ upRun = "direct"
          /\ fileState["artists"] = "ok"
          /\ retries \in {[f \in Files |-> IF f = "tracks" THEN n ELSE DefaultRetries] :
                            n \in 0..MaxRetries}
          /\ upc = [f \in Files |-> IF f = "tracks" THEN "access" ELSE "notcalled"]
          /\ callStatus = [f \in Files |-> IF f = "tracks" THEN "pending" ELSE "none"]

\* await fsPromises.access(filePath)
Access(f) ==
    /\ upc[f] = "access"
    /\ IF fileState[f] = "missing"
       THEN /\ uploadLog' = [uploadLog EXCEPT ![f] = Append(@, LogLine("File not found", 0))]
            /\ upc' = [upc EXCEPT ![f] = "done"]
            /\ callStatus' = [callStatus EXCEPT ![f] = "resolved"]
       ELSE /\ upc' = [upc EXCEPT ![f] = "read"]
            /\ UNCHANGED <<uploadLog, callStatus>>
    /\ UNCHANGED <<retries, fileState, attempt, outcomes, upRun>>
    /\ UNCHANGED <<pipelineVars, parserVars, stageVars, configVars, loaderVars, workerVars>>

\* await fsPromises.readFile(filePath), then the loop is entered
ReadFile(f) ==
    /\ upc[f] = "read"
    /\ IF ReadFails(fileState[f])
       THEN /\ uploadLog' = [uploadLog EXCEPT ![f] = Append(@, LogLine("Error reading file", 0))]
            /\ upc' = [upc EXCEPT ![f] = "done"]
            /\ callStatus' = [callStatus EXCEPT ![f] = "resolved"]
            /\ UNCHANGED attempt
       ELSE /\ attempt' = [attempt EXCEPT ![f] = 1]
            /\ IF LoopContinues(1, retries[f])
               THEN /\ upc' = [upc EXCEPT ![f] = "upload"]
                    /\ UNCHANGED callStatus
               ELSE /\ upc' = [upc EXCEPT ![f] = "done"]
                    /\ callStatus' = [callStatus EXCEPT ![f] = "resolved"]
            /\ UNCHANGED uploadLog
    /\ UNCHANGED <<retries, fileState, outcomes, upRun>>
    /\ UNCHANGED <<pipelineVars, parserVars, stageVars, configVars, loaderVars, workerVars>>

\* s3.upload(params).promise() resolves
UploadSucceeds(f) ==
    /\ upc[f] = "upload"
    /\ outcomes' = [outcomes EXCEPT ![f] = Append(@, "ok")]
    /\ uploadLog' = [uploadLog EXCEPT ![f] = Append(@, LogLine("uploaded successfully", 0))]
    /\ upc' = [upc EXCEPT ![f] = "done"]
    /\ callStatus' = [callStatus EXCEPT ![f] = "resolved"]
    /\ UNCHANGED <<retries, fileState, attempt, upRun>>
    /\ UNCHANGED <<pipelineVars, parserVars, stageVars, configVars, loaderVars, workerVars>>

\* s3.upload(params).promise() rejects
UploadFails(f) ==
    /\ upc[f] = "upload"
    /\ outcomes' = [outcomes EXCEPT ![f] = Append(@, "fail")]
    /\ uploadLog' = [uploadLog EXCEPT ![f] =
          Append(@, LogLine("Attempt - Error uploading file", attempt[f]))
          \o (IF attempt[f] = retries[f]
              THEN <<LogLine("Failed to upload after attempts", retries[f])>>
              ELSE <<>>)]
    /\ attempt' = [attempt EXCEPT ![f] = @ + 1]
    /\ IF LoopContinues(attempt[f] + 1, retries[f])
       THEN UNCHANGED <<upc, callStatus>>
       ELSE /\ upc' = [upc EXCEPT ![f] = "done"]
            /\ callStatus' = [callStatus EXCEPT ![f] = AfterLastFailure]
    /\ UNCHANGED <<retries, fileState, upRun>>
    /\ UNCHANGED <<pipelineVars, parserVars, stageVars, configVars, loaderVars, workerVars>>

\* await Promise.all([...]) in runUploads settles: on the first rejection, or
\* when both calls have resolved; the catch logs and runUploads returns.
RunUploadsAwait ==
    /\ upRun = "awaiting"
    /\ \/ \E f \in Files : callStatus[f] = "rejected"
       \/ \A f \in Files : callStatus[f] = "resolved"
    /\ upRun' = "resolved"
    /\ uploadLog' =
          IF \E f \in Files : callStatus[f] = "rejected"
          THEN [uploadLog EXCEPT !["runUploads"] =
                   Append(@, LogLine("Unhandled error during uploads", 0))]
          ELSE uploadLog
    /\ UNCHANGED <<retries, fileState, upc, attempt, outcomes, callStatus>>
    /\ UNCHANGED <<pipelineVars, parserVars, stageVars, configVars, loaderVars, workerVars>>

UploadsNext ==
    \/ \E f \in Files : Access(f)
    \/ \E f \in Files : ReadFile(f)
    \/ \E f \in Files : UploadSucceeds(f)
    \/ \E f \in Files : UploadFails(f)
    \/ RunUploadsAwait

SpecUpload == UploadsInit /\ [][UploadsNext]_vars

\* C16: for a readable file and retries = n >= 1 the attempts are all
\* failures except possibly the last, there are never more than n of them,
\* and a finished call has stopped at its first success or after n failures.
C16_AttemptsStopAtFirstSuccess ==
    \A f \in Files :
        (fileState[f] = "ok" /\ retries[f] >= 1) =>
            /\ Len(outcomes[f]) <= retries[f]
            /\ \A k \in 1..(Len(outcomes[f]) - 1) : outcomes[f][k] = "fail"
            /\ upc[f] = "done" =>
                 /\ Len(outcomes[f]) >= 1
                 /\ \/ outcomes[f][Len(outcomes[f])] = "ok"
                    \/ Len(outcomes[f]) = retries[f]

C16_Witness ==
    /\ upRun = "direct"
    /\ retries["tracks"] = 2
    /\ upc["tracks"] = "done"
    /\ outcomes["tracks"] = <<"fail", "ok">>

\* The lines of a call whose n attempts all failed.
FailureLog(n) ==
    [k \in 1..(n + 1) |->
        IF k <= n THEN LogLine("Attempt - Error uploading file", k)
        ELSE LogLine("Failed to upload after attempts", n)]

AllFailed(f) == \A k \in 1..Len(outcomes[f]) : outcomes[f][k] = "fail"

HasLogged(f, m) == \E k \in 1..Len(uploadLog[f]) : uploadLog[f][k].msg = m

\* C17: a finished call on a readable file whose attempts all failed has
\* logged "Attempt k" for k = 1..retries and then "Failed to upload" once,
\* and has resolved; whatever the attempt count, a finished call has logged
\* the success or the terminal failure.
C17_FinishedCallHasLoggedItsEnd ==
    \A f \in Files :
        (upc[f] = "done" /\ fileState[f] = "ok") =>
            /\ AllFailed(f) =>
                 /\ uploadLog[f] = FailureLog(retries[f])
                 /\ callStatus[f] = "resolved"
            /\ \/ HasLogged(f, "uploaded successfully")
               \/ HasLogged(f, "Failed to upload after attempts")

\* The same for attempt counts of one and more.
C17_WithAtLeastOneAttempt ==
    \A f \in Files :
        (upc[f] = "done" /\ fileState[f] = "ok" /\ retries[f] >= 1) =>
            /\ AllFailed(f) =>
                 /\ uploadLog[f] = FailureLog(retries[f])
                 /\ callStatus[f] = "resolved"
            /\ \/ HasLogged(f, "uploaded successfully")
               \/ HasLogged(f, "Failed to upload after attempts")

\* C18: in runUploads no call rejects, so the await never ends early and the
\* catch never runs: when runUploads has resolved both calls have finished,
\* and each readable file has had its upload attempted whatever happened to
\* the other file.
C18_UploadsIndependent ==
    upRun \in {"awaiting", "resolved"} =>
        /\ \A f \in Files : callStatus[f] # "rejected"
        /\ uploadLog["runUploads"] = <<>>
        /\ upRun = "resolved" =>
             \A f \in Files :
                 /\ upc[f] = "done"
                 /\ fileState[f] = "ok" => Len(outcomes[f]) >= 1

\* One file fails on every attempt, the other is uploaded.
C18_Witness ==
    /\ upRun = "resolved"
    /\ outcomes["tracks"] = <<"fail", "fail", "fail">>
    /\ outcomes["artists"] = <<"ok">>

\* C19: for a file that is missing or cannot be read no upload is attempted,
\* and the finished call has logged the file error and nothing else and has
\* resolved.
C19_FileErrorMeansNoAttempt ==
    \A f \in Files :
        fileState[f] # "ok" =>
            /\ outcomes[f] = <<>>
            /\ upc[f] = "done" =>
                 /\ callStatus[f] = "resolved"
                 /\ uploadLog[f] =
                       << LogLine(IF fileState[f] = "missing" THEN "File not found"
                                  ELSE "Error reading file", 0) >>

C19_Witness ==
    /\ fileState["tracks"] = "unreadable"
    /\ fileState["artists"] = "missing"
    /\ upc["tracks"] = "done"
    /\ upc["artists"] = "done"

\* ------------------------------------------------------------------------
\* config/config.ts
\* ------------------------------------------------------------------------

requiredEnv ==
    << "AWS_ACCESS_KEY_ID", "AWS_SECRET_ACCESS_KEY", "AWS_REGION",
       "S3_BUCKET_NAME", "PG_HOST", "PG_PORT", "PG_USER", "PG_PASSWORD",
       "PG_DATABASE" >>

RequiredKeys == {requiredEnv[k] : k \in 1..Len(requiredEnv)}

\* process.env[key]: undefined, "" or a non-empty string
EnvValues == {"unset", "empty", "set"}

\* Faulty variant of IsMissing: an empty value passes.
IsMissing_UnsetOnly(v) == v = "unset"

\* !process.env[key]
IsMissing(v) == v \in {"unset", "empty"}

\* The key the for loop throws on, from position k on; "none" if it ends.
RECURSIVE FirstMissing(_, _)
FirstMissing(e, k) ==
    IF k > Len(requiredEnv) THEN "none"
    ELSE IF IsMissing(e[requiredEnv[k]]) THEN requiredEnv[k]
    ELSE FirstMissing(e, k + 1)

\* process.env.LOCAL_TEST: undefined or a string
LocalTestValues == {"unset", "empty", "true", "false", "1"}

\* localTest: process.env.LOCAL_TEST === "false"
config_localTest(v) == IF v = "false" THEN "true" ELSE "false"

\* The branch downloadCSVFromS3 takes.
downloadCSVFromS3_source(v) == IF v = "true" THEN "local" ELSE "s3"

ConfigInit ==
    /\ PipelineIdle /\ ParsersIdle /\ StagesIdle /\ UploadsIdle
    /\ LoaderIdle /\ WorkersIdle
    /\ env \in [RequiredKeys -> EnvValues]
    /\ LOCAL_TEST \in LocalTestValues
    /\ configState = "unloaded"
    /\ configError = "none"
    /\ started = FALSE
    /\ localTest = "none"
    /\ csvSource = "none"

\* The module is evaluated: the loop throws or the config object is exported.
LoadConfig ==
    /\ configState = "unloaded"
    /\ configError' = FirstMissing(env, 1)
    /\ configState' = IF FirstMissing(env, 1) = "none" THEN "loaded" ELSE "failed"
    /\ localTest' = IF FirstMissing(env, 1) = "none" THEN config_localTest(LOCAL_TEST)
                    ELSE "none"
    /\ UNCHANGED <<env, started, LOCAL_TEST, csvSource>>
    /\ UNCHANGED <<pipelineVars, parserVars, stageVars, uploadVars, loaderVars, workerVars>>

\* A module that imports config runs its step once the import has returned.
RunStep ==
    /\ configState = "loaded"
    /\ ~started
    /\ started' = TRUE
    /\ UNCHANGED <<env, configState, configError, LOCAL_TEST, localTest, csvSource>>
    /\ UNCHANGED <<pipelineVars, parserVars, stageVars, uploadVars, loaderVars, workerVars>>

\* downloadCSVFromS3 of services/s3Service.ts, which imports the config
DownloadCSV ==
    /\ configState = "loaded"
    /\ csvSource = "none"
    /\ csvSource' = downloadCSVFromS3_source(LOCAL_TEST)
    /\ UNCHANGED <<env, configState, configError, started, LOCAL_TEST, localTest>>
    /\ UNCHANGED <<pipelineVars, parserVars, stageVars, uploadVars, loaderVars, workerVars>>

ConfigNext ==
    \/ LoadConfig
    \/ RunStep
    \/ DownloadCSV

SpecConfig == ConfigInit /\ [][ConfigNext]_vars

\* The order C20 names.
C20_Order ==
    << "AWS_ACCESS_KEY_ID", "AWS_SECRET_ACCESS_KEY", "AWS_REGION",
       "S3_BUCKET_NAME", "PG_HOST", "PG_PORT", "PG_USER", "PG_PASSWORD",
       "PG_DATABASE" >>

\* C20: loading throws if and only if one of the nine variables is unset or
\* empty, the error names the first such variable in the fixed order, and
\* then no config object exists and no pipeline step runs.
C20_MissingVariableIsFatal ==
    LET missing == {k \in 1..Len(C20_Order) : env[C20_Order[k]] \in {"unset", "empty"}}
    IN  /\ configState # "loaded" => ~started
        /\ configState # "unloaded" =>
             /\ (configState = "failed") <=> (missing # {})
             /\ missing = {} => configState = "loaded" /\ configError = "none"
             /\ missing # {} =>
                  /\ \E k \in missing :
                       /\ \A l \in missing : k <= l
                       /\ configError = C20_Order[k]
                  /\ ~started

C20_Witness ==
    /\ configState = "failed"
    /\ env["AWS_ACCESS_KEY_ID"] = "set"
    /\ env["AWS_SECRET_ACCESS_KEY"] = "empty"
    /\ env["PG_HOST"] = "unset"
    /\ configError = "AWS_SECRET_ACCESS_KEY"

DigitsAt(c, a, b) == \A i \in a..b : c[i] \in Digits

\* What C12 expects of a date text, read off the positions of its characters.
ExpectedDate(dateStr) ==
    LET c == Trim(SelectSeq(dateStr, IsPrintable))
        n == Len(c)
        dmy == {ab \in {1, 2} \X {1, 2} :
                  /\ n = ab[1] + ab[2] + 6
                  /\ DigitsAt(c, 1, ab[1])
                  /\ c[ab[1] + 1] = "/"
                  /\ DigitsAt(c, ab[1] + 2, ab[1] + ab[2] + 1)
                  /\ c[ab[1] + ab[2] + 2] = "/"
                  /\ DigitsAt(c, ab[1] + ab[2] + 3, n)}
    IN  IF /\ n = 10
           /\ DigitsAt(c, 1, 4) /\ c[5] = "-"
           /\ DigitsAt(c, 6, 7) /\ c[8] = "-"
           /\ DigitsAt(c, 9, 10)
        THEN [year |-> SubSeq(c, 1, 4), month |-> SubSeq(c, 6, 7),
              day |-> SubSeq(c, 9, 10)]
        ELSE IF dmy # {}
        THEN LET ab == CHOOSE ab \in dmy : TRUE
             IN  [year |-> SubSeq(c, n - 3, n),
                  month |-> SubSeq(c, ab[1] + 2, ab[1] + ab[2] + 1),
                  day |-> SubSeq(c, 1, ab[1])]
        ELSE IF n = 4 /\ DigitsAt(c, 1, 4)
        THEN [year |-> c, month |-> <<>>, day |-> <<>>]
        ELSE [year |-> <<>>, month |-> <<>>, day |-> <<>>]

\* C12: parseReleaseDate returns, for the text with the characters outside
\* printable ASCII removed and then trimmed, year/month/day of YYYY-MM-DD,
\* day/month/year of D{1,2}/M{1,2}/YYYY reassigned, the year alone of YYYY,
\* and three empty strings for everything else.
C12_ReleaseDateFormats ==
    (parserFn = "parseReleaseDate" /\ parserDone) =>
        parserResult = ExpectedDate(parserArg)

C12_Witness ==
    /\ parserFn = "parseReleaseDate"
    /\ parserDone
    /\ parserArg = <<"\t", "1", "/", "1", "2", "/", "1", "9", "\t", "2", "9", " ">>
    /\ parserResult = [year |-> <<"1", "9", "2", "9">>, month |-> <<"1", "2">>,
                       day |-> <<"1">>]

\* C21: config.localTest is true exactly when LOCAL_TEST is "true", and it
\* agrees with downloadCSVFromS3: local files when true, S3 when false.
C21_LocalTestFollowsEnv ==
    configState = "loaded" =>
        /\ (localTest = "true") <=> (LOCAL_TEST = "true")
        /\ csvSource # "none" => ((localTest = "true") <=> (csvSource = "local"))

\* C22: the transform command ends with exit code 0 only when both pipelines
\* completed, and with a non-zero code when either hit a fatal I/O error.
C22_ExitCodeTellsFailure ==
    pc = "done" =>
        ((ExitCode(status) = 0) <=>
            (trackPipeline = "finished" /\ artistPipeline = "finished"))

\* C28: uniqueArtistIds only ever grows, it changes only in a step in which
\* the track stage handles a row, and no step of the artist stage changes it.
C28_AccumulatorOnlyGrowsInTrackStage ==
    [][/\ uniqueArtistIds \subseteq uniqueArtistIds'
       /\ (uniqueArtistIds' # uniqueArtistIds) =>
            /\ trackPipeline = "flowing"
            /\ Len(tracksInput') = Len(tracksInput) + 1
            /\ artistPipeline = "idle"
            /\ artistsInput' = artistsInput
       /\ (artistsInput' # artistsInput \/ artistsOutput' # artistsOutput) =>
            uniqueArtistIds' = uniqueArtistIds]_vars

\* The set grew over two track rows and an artist was then filtered with it.
C28_Witness ==
    /\ Len(tracksInput) = 2
    /\ ReferencedIds(tracksInput[1]) = {<<"b">>}
    /\ uniqueArtistIds = {<<"a">>, <<"b">>}
    /\ artistFilter = "uniqueArtistIds"
    /\ artistsOutput # <<>>

\* The columns of the lookup table of getColumnType.
LookupColumns ==
    IntegerColumns \cup DoubleColumns \cup TextColumns \cup ArrayColumns \cup {"explicit"}

MaxLoads == 2

MaxRecords == 2

\* The two copies of loadCSVIntoTable.
Variants == {"csvLoader", "loadS3test"}

requiredHeaders == <<"id", "name">>

\* The header lines of the CSV files loaded.
CSVHeaders ==
    { <<>>,
      <<"id", "name">>,
      <<"col1", "col2">>,
      <<"id", "name", "id_artists">>,
      <<"name", "id", "popularity">> }

\* The fields a column holds.
FieldValues(header) ==
    CASE header = "id" -> { <<"a">> }
      [] header = "name" -> { <<"n", " ">> }
      [] header = "id_artists" -> { <<"[", "'", "a", "'", "]">>, <<"x">> }
      [] header = "popularity" -> { <<"7">>, <<>> }
      [] header = "col1" -> { <<"v", "a", "l", "1">> }
      [] OTHER -> { <<"v", "a", "l", "2">> }

AllFieldValues ==
    UNION {FieldValues(h) : h \in {"id", "name", "id_artists", "popularity", "col1", "col2"}}

Rows(headers) ==
    {r \in [1..Len(headers) -> AllFieldValues] :
        \A k \in 1..Len(headers) : r[k] \in FieldValues(headers[k])}

\* parse(fileContent, {columns: true}): the header names and the records. A
\* file without a header line has no records.
CSV(headers, rows) == [downloaded |-> TRUE, headers |-> headers, rows |-> rows]

NoCSV == [downloaded |-> FALSE, headers |-> <<>>, rows |-> <<>>]

CSVFiles ==
    UNION { {CSV(h, rs) :
                rs \in UNION {[1..n -> Rows(h)] :
                                n \in 0..(IF h = <<>> THEN 0 ELSE MaxRecords)}} :
            h \in CSVHeaders }

\* A call of client.query: the statement, its parameters and what came back.
Statement(client, kind, columns, values, ok, rowCount) ==
    [client |-> client, kind |-> kind, columns |-> columns, values |-> values,
     ok |-> ok, rowCount |-> rowCount]

LoaderLine(level, msg, record) == [level |-> level, msg |-> msg, record |-> record]

\* Faulty variant of DatabaseIsMissing: the lookup's answer is ignored.
DatabaseIsMissing_Always(rowCount) == TRUE

\* res.rowCount === 0
DatabaseIsMissing(rowCount) == rowCount = 0

\* Faulty variant of NoRecords: the emptiness test never holds.
NoRecords_Never(records) == FALSE

\* records.length === 0
NoRecords(records) == Len(records) = 0

\* requiredHeaders.filter((h) => !headers.includes(h))
MissingHeaders(headers) ==
    SelectSeq(requiredHeaders,
              LAMBDA h : ~\E k \in 1..Len(headers) : headers[k] = h)

\* headers.map((col) => `"${col}" ${getColumnType(col)}`)
ColumnsDefinition(headers) ==
    [k \in 1..Len(headers) |-> <<headers[k], getColumnType(headers[k])>>]

\* csvLoader.ts: headers.map((header) => convertValue(record[header] ?? "", header))
InsertValues(headers, record) ==
    [k \in 1..Len(headers) |-> convertValue(record[k], headers[k])]

\* loadS3test.ts: the record after the trimming, the id_artists rewrite and
\* the replacement of "" by null; ok is FALSE when JSON.parse or arr.join
\* throws. The files loaded have no artists and no genres column, their lists
\* hold strings, and the table is not "artists".
Sanitize(headers, record) ==
    LET trimmed == [k \in 1..Len(headers) |-> Trim(record[k])]
        parsed == [k \in 1..Len(headers) |-> JSONparse(ReplaceQuotes(trimmed[k]))]
        rewrites == {k \in 1..Len(headers) :
                        headers[k] = "id_artists" /\ trimmed[k] # <<>>}
        field(k) ==
            IF k \in rewrites
            THEN <<"{">>
                 \o Join([e \in 1..Len(parsed[k].val) |-> parsed[k].val[e].val],
                         <<>>, <<",">>)
                 \o <<"}">>
            ELSE trimmed[k]
    IN  IF \E k \in rewrites : ~parsed[k].ok \/ parsed[k].kind # "array"
        THEN [ok |-> FALSE, values |-> <<>>]
        ELSE [ok |-> TRUE,
              values |-> [k \in 1..Len(headers) |->
                             IF field(k) = <<>> THEN Null ELSE Text(field(k))]]

LoaderInit ==
    /\ variant \in Variants
    /\ loads = 0
    /\ dbExists \in BOOLEAN
    /\ created = 0
    /\ csv = NoCSV
    /\ lpc = "idle"
    /\ adminClient = "none"
    /\ pgClient = "none"
    /\ sql = <<>>
    /\ nextRecord = 0
    /\ insertedRows = 0
    /\ skippedRows = 0
    /\ fault = "none"
    /\ loadStatus = "none"
    /\ loaderLog = <<>>
    /\ PipelineIdle /\ ParsersIdle /\ StagesIdle /\ UploadsIdle /\ ConfigIdle
    /\ WorkersIdle

\* catch (err) of ensureDatabaseExists: process.exit(1) ends the process
\* where it stands.
ProcessExits(cause) ==
    /\ fault' = cause
    /\ loadStatus' = "exit1"
    /\ lpc' = "exited"
    /\ loaderLog' = Append(loaderLog,
                           LoaderLine("error", "Error ensuring database exists", <<>>))

\* catch (err) of loadCSVIntoTable: log and rethrow.
LoadRejects(cause) ==
    /\ fault' = cause
    /\ loadStatus' = "rejected"
    /\ lpc' = "done"
    /\ loaderLog' = Append(loaderLog,
                           LoaderLine("error", "Error during CSV load", <<>>))

\* loadCSVIntoTable up to the first await of ensureDatabaseExists
LoadCSVIntoTable ==
    /\ lpc \in {"idle", "done"}
    /\ loads < MaxLoads
    /\ loads' = loads + 1
    /\ csv' = NoCSV
    /\ pgClient' = "none"
    /\ sql' = <<>>
    /\ nextRecord' = 0
    /\ insertedRows' = 0
    /\ skippedRows' = 0
    /\ \E targetDb \in BOOLEAN :
         IF targetDb
         THEN /\ adminClient' = "new"
              /\ lpc' = "ensureConnect"
              /\ fault' = "none"
              /\ loadStatus' = "running"
              /\ loaderLog' = <<>>
         ELSE /\ adminClient' = "none"
              /\ lpc' = "exited"
              /\ fault' = "PG_DATABASE"
              /\ loadStatus' = "exit1"
              /\ loaderLog' =
                   <<LoaderLine("error", "Environment variable PG_DATABASE is not set.", <<>>)>>
    /\ UNCHANGED <<variant, dbExists, created>>
    /\ UNCHANGED <<pipelineVars, parserVars, stageVars, uploadVars, configVars, workerVars>>

\* await adminClient.connect()
EnsureConnect ==
    /\ lpc = "ensureConnect"
    /\ \E ok \in BOOLEAN :
         IF ok
         THEN /\ adminClient' = "open"
              /\ lpc' = "ensureLookup"
              /\ UNCHANGED <<fault, loadStatus, loaderLog>>
         ELSE /\ adminClient' = "failed"
              /\ ProcessExits("adminConnect")
    /\ UNCHANGED <<variant, loads, dbExists, created, csv, pgClient, sql,
                   nextRecord, insertedRows, skippedRows>>
    /\ UNCHANGED <<pipelineVars, parserVars, stageVars, uploadVars, configVars, workerVars>>

\* await adminClient.query("SELECT 1 FROM pg_database WHERE datname = $1")
\* and the test of res.rowCount
EnsureLookup ==
    /\ lpc = "ensureLookup"
    /\ \E ok \in BOOLEAN :
         LET rowCount == IF dbExists THEN 1 ELSE 0
         IN  IF ok
             THEN /\ sql' = Append(sql, Statement("adminClient", "SELECT", <<>>, <<>>,
                                                  TRUE, rowCount))
                  /\ IF DatabaseIsMissing(rowCount)
                     THEN /\ lpc' = "ensureCreate"
                          /\ loaderLog' = Append(loaderLog,
                                LoaderLine("info", "Database does not exist. Creating database...", <<>>))
                     ELSE /\ lpc' = "ensureEnd"
                          /\ loaderLog' = Append(loaderLog,
                                LoaderLine("info", "Database already exists.", <<>>))
                  /\ UNCHANGED <<fault, loadStatus>>
             ELSE /\ sql' = Append(sql, Statement("adminClient", "SELECT", <<>>, <<>>,
                                                  FALSE, 0))
                  /\ ProcessExits("lookup")
    /\ UNCHANGED <<variant, loads, dbExists, created, csv, adminClient, pgClient,
                   nextRecord, insertedRows, skippedRows>>
    /\ UNCHANGED <<pipelineVars, parserVars, stageVars, uploadVars, configVars, workerVars>>

\* await adminClient.query(`CREATE DATABASE "${targetDb}"`): the server
\* refuses to create a database that exists.
EnsureCreate ==
    /\ lpc = "ensureCreate"
    /\ \E ok \in (IF dbExists THEN {FALSE} ELSE BOOLEAN) :
         /\ sql' = Append(sql, Statement("adminClient", "CREATE DATABASE", <<>>, <<>>,
                                         ok, 0))
         /\ IF ok
            THEN /\ dbExists' = TRUE
                 /\ created' = created + 1
                 /\ lpc' = "ensureEnd"
                 /\ loaderLog' = Append(loaderLog,
                       LoaderLine("info", "Database created successfully.", <<>>))
                 /\ UNCHANGED <<fault, loadStatus>>
            ELSE /\ ProcessExits("createDatabase")
                 /\ UNCHANGED <<dbExists, created>>
    /\ UNCHANGED <<variant, loads, csv, adminClient, pgClient, nextRecord,
                   insertedRows, skippedRows>>
    /\ UNCHANGED <<pipelineVars, parserVars, stageVars, uploadVars, configVars, workerVars>>

\* finally { await adminClient.end() }
EnsureEnd ==
    /\ lpc = "ensureEnd"
    /\ adminClient' = "ended"
    /\ lpc' = "connect"
    /\ UNCHANGED <<variant, loads, dbExists, created, csv, pgClient, sql,
                   nextRecord, insertedRows, skippedRows, fault, loadStatus,
                   loaderLog>>
    /\ UNCHANGED <<pipelineVars, parserVars, stageVars, uploadVars, configVars, workerVars>>

\* new Client(...); await pgClient.connect()
PgConnect ==
    /\ lpc = "connect"
    /\ \E ok \in BOOLEAN :
         IF ok
         THEN /\ pgClient' = "open"
              /\ lpc' = "download"
              /\ loaderLog' = Append(loaderLog,
                    LoaderLine("info", "Connected to PostgreSQL database", <<>>))
              /\ UNCHANGED <<fault, loadStatus>>
         ELSE /\ pgClient' = "failed"
              /\ LoadRejects("connect")
    /\ UNCHANGED <<variant, loads, dbExists, created, csv, adminClient, sql,
                   nextRecord, insertedRows, skippedRows>>
    /\ UNCHANGED <<pipelineVars, parserVars, stageVars, uploadVars, configVars, workerVars>>

\* await downloadCSVFromS3(s3Key), parse, the test for no records and the
\* validation of the headers
Download ==
    /\ lpc = "download"
    /\ \/ /\ LoadRejects("download")
          /\ UNCHANGED <<csv, nextRecord>>
       \/ /\ LoadRejects("parse")
          /\ UNCHANGED <<csv, nextRecord>>
       \/ \E file \in CSVFiles :
            /\ csv' = file
            /\ IF NoRecords(file.rows)
               THEN /\ loaderLog' = Append(loaderLog,
                          LoaderLine("error", "CSV file is empty.", <<>>))
                    /\ lpc' = "endEmpty"
                    /\ UNCHANGED <<fault, loadStatus, nextRecord>>
               ELSE IF file.rows = <<>>
               THEN /\ LoadRejects("TypeError")
                    /\ UNCHANGED nextRecord
               ELSE IF MissingHeaders(file.headers) # <<>>
               THEN /\ LoadRejects("headers")
                    /\ UNCHANGED nextRecord
               ELSE /\ lpc' = "createTable"
                    /\ UNCHANGED <<fault, loadStatus, loaderLog, nextRecord>>
    /\ UNCHANGED <<variant, loads, dbExists, created, adminClient, pgClient, sql,
                   insertedRows, skippedRows>>
    /\ UNCHANGED <<pipelineVars, parserVars, stageVars, uploadVars, configVars, workerVars>>

\* await pgClient.end(); return
EndEmpty ==
    /\ lpc = "endEmpty"
    /\ pgClient' = "ended"
    /\ loadStatus' = "resolved"
    /\ lpc' = "done"
    /\ UNCHANGED <<variant, loads, dbExists, created, csv, adminClient, sql,
                   nextRecord, insertedRows, skippedRows, fault, loaderLog>>
    /\ UNCHANGED <<pipelineVars, parserVars, stageVars, uploadVars, configVars, workerVars>>

\* await pgClient.query(createTableQuery)
CreateTable ==
    /\ lpc = "createTable"
    /\ \E ok \in BOOLEAN :
         /\ sql' = Append(sql, Statement("pgClient", "CREATE TABLE IF NOT EXISTS",
                                         ColumnsDefinition(csv.headers), <<>>, ok, 0))
         /\ IF ok
            THEN /\ lpc' = "insert"
                 /\ nextRecord' = 1
                 /\ loaderLog' = Append(loaderLog,
                       LoaderLine("info", "Ensured table exists", <<>>))
                 /\ UNCHANGED <<fault, loadStatus>>
            ELSE /\ LoadRejects("createTable")
                 /\ UNCHANGED nextRecord
    /\ UNCHANGED <<variant, loads, dbExists, created, csv, adminClient, pgClient,
                   insertedRows, skippedRows>>
    /\ UNCHANGED <<pipelineVars, parserVars, stageVars, uploadVars, configVars, workerVars>>

\* One turn of for (const record of records). csvLoader.ts converts and
\* inserts with nothing around them; loadS3test.ts wraps them in try/catch
\* and counts.
InsertRecord ==
    /\ lpc = "insert"
    /\ nextRecord <= Len(csv.rows)
    /\ LET record == csv.rows[nextRecord]
       IN  IF variant = "csvLoader"
           THEN \E ok \in BOOLEAN :
                  /\ sql' = Append(sql, Statement("pgClient", "INSERT", csv.headers,
                                     InsertValues(csv.headers, record), ok, 0))
                  /\ IF ok
                     THEN /\ insertedRows' = insertedRows + 1
                          /\ nextRecord' = nextRecord + 1
                          /\ UNCHANGED <<lpc, fault, loadStatus, loaderLog>>
                     ELSE /\ LoadRejects("insert")
                          /\ UNCHANGED <<insertedRows, nextRecord>>
                  /\ UNCHANGED skippedRows
           ELSE LET clean == Sanitize(csv.headers, record)
                    skip ==
                        /\ skippedRows' = skippedRows + 1
                        /\ loaderLog' = Append(loaderLog,
                              LoaderLine("error", "Skipping record", record))
                        /\ UNCHANGED insertedRows
                IN  /\ nextRecord' = nextRecord + 1
                    /\ UNCHANGED <<lpc, fault, loadStatus>>
                    /\ IF ~clean.ok
                       THEN skip /\ UNCHANGED sql
                       ELSE \E ok \in BOOLEAN :
                              /\ sql' = Append(sql, Statement("pgClient", "INSERT",
                                                 csv.headers, clean.values, ok, 0))
                              /\ IF ok
                                 THEN /\ insertedRows' = insertedRows + 1
                                      /\ UNCHANGED <<skippedRows, loaderLog>>
                                 ELSE skip
    /\ UNCHANGED <<variant, loads, dbExists, created, csv, adminClient, pgClient>>
    /\ UNCHANGED <<pipelineVars, parserVars, stageVars, uploadVars, configVars, workerVars>>

\* After the loop: the summary line, await pgClient.end(), "Disconnected"
EndLoad ==
    /\ lpc = "insert"
    /\ nextRecord > Len(csv.rows)
    /\ pgClient' = "ended"
    /\ loadStatus' = "resolved"
    /\ lpc' = "done"
    /\ loaderLog' = loaderLog
                    \o <<LoaderLine("info", "Loaded rows into table", <<>>),
                         LoaderLine("info", "Disconnected from PostgreSQL", <<>>)>>
    /\ UNCHANGED <<variant, loads, dbExists, created, csv, adminClient, sql,
                   nextRecord, insertedRows, skippedRows, fault>>
    /\ UNCHANGED <<pipelineVars, parserVars, stageVars, uploadVars, configVars, workerVars>>

LoaderNext ==
    \/ LoadCSVIntoTable
    \/ EnsureConnect
    \/ EnsureLookup
    \/ EnsureCreate
    \/ EnsureEnd
    \/ PgConnect
    \/ Download
    \/ EndEmpty
    \/ CreateTable
    \/ InsertRecord
    \/ EndLoad

SpecLoader == LoaderInit /\ [][LoaderNext]_vars

\* The statements one client was asked to run, in order.
StatementsOf(client) == SelectSeq(sql, LAMBDA s : s.client = client)

\* C23: ensureDatabaseExists asks CREATE DATABASE exactly when the lookup
\* returned zero rows and asks nothing but the lookup when it returned a
\* row, repeated calls create the database at most once, and a failed
\* connect, lookup or create ends the process with exit code 1.
C23_CreateIfAbsent ==
    LET admin == StatementsOf("adminClient")
    IN  /\ created <= 1
        /\ Len(admin) <= 2
        /\ Len(admin) >= 1 => admin[1].kind = "SELECT"
        /\ Len(admin) = 2 =>
             /\ admin[2].kind = "CREATE DATABASE"
             /\ admin[1].ok /\ admin[1].rowCount = 0
        /\ (adminClient = "ended" /\ lpc # "ensureConnect") =>
             /\ admin[1].ok
             /\ Len(admin) = (IF admin[1].rowCount = 0 THEN 2 ELSE 1)
             /\ \A k \in 1..Len(admin) : admin[k].ok
        /\ ( \/ adminClient = "failed"
             \/ \E k \in 1..Len(admin) : ~admin[k].ok ) =>
             /\ loadStatus = "exit1"
             /\ adminClient # "ended"

C23_Witness ==
    /\ loads = 2
    /\ created = 1
    /\ adminClient = "ended"
    /\ Len(StatementsOf("adminClient")) = 1
    /\ StatementsOf("adminClient")[1].rowCount = 1

\* C24: for a CSV with at least one record, whatever its columns are
\* called, a load that the database does not fail asks one CREATE TABLE
\* IF NOT EXISTS with one column per header and then one INSERT per record
\* with that record's values in header order.
C24_EveryRecordBecomesARow ==
    ( /\ variant = "csvLoader"
      /\ csv.rows # <<>>
      /\ lpc = "done"
      /\ fault \notin {"createTable", "insert"} ) =>
        LET asked == StatementsOf("pgClient")
        IN  /\ loadStatus = "resolved"
            /\ Len(asked) = 1 + Len(csv.rows)
            /\ asked[1].kind = "CREATE TABLE IF NOT EXISTS"
            /\ asked[1].columns = ColumnsDefinition(csv.headers)
            /\ \A k \in 1..Len(csv.rows) :
                 /\ asked[k + 1].kind = "INSERT"
                 /\ asked[k + 1].columns = csv.headers
                 /\ asked[k + 1].values = InsertValues(csv.headers, csv.rows[k])

\* The records skipped so far, as logged.
SkippedLog == SelectSeq(loaderLog, LAMBDA l : l.msg = "Skipping record")

\* C25: a failed conversion or INSERT of one record never ends the load: it
\* is logged with the record, the other records are still inserted, and a
\* finished load has inserted or skipped every record.
C25_RecordErrorSkipsOnlyThatRecord ==
    /\ fault # "insert"
    /\ Len(SkippedLog) = skippedRows
    /\ \A k \in 1..Len(SkippedLog) :
         \E n \in 1..Len(csv.rows) : SkippedLog[k].record = csv.rows[n]
    /\ (lpc = "done" /\ loadStatus = "resolved") =>
         insertedRows + skippedRows = Len(csv.rows)

\* C26: a CSV of zero records logs that the file is empty, asks the
\* database for no CREATE TABLE and no INSERT, closes the connection and
\* resolves.
C26_EmptyCsv ==
    (csv.downloaded /\ csv.rows = <<>>) =>
        /\ StatementsOf("pgClient") = <<>>
        /\ \E k \in 1..Len(loaderLog) :
             loaderLog[k] = LoaderLine("error", "CSV file is empty.", <<>>)
        /\ fault = "none"
        /\ loadStatus \in {"running", "resolved"}
        /\ lpc = "done" =>
             /\ loadStatus = "resolved"
             /\ pgClient = "ended"

C26_Witness ==
    /\ csv.downloaded
    /\ csv.headers = <<"id", "name">>
    /\ csv.rows = <<>>
    /\ lpc = "done"
    /\ loadStatus = "resolved"
    /\ pgClient = "ended"

NumWorkers == 2

MaxWorkRecords == 2

\* while (attempts < 3), if (attempts >= 3) throw e
InsertAttempts == 3

\* Array(concurrency).fill(null).map(() => worker())
Workers == 1..NumWorkers

\* A record either gets through the sanitising and rewriting or makes it
\* throw (an id_artists field that is not JSON).
RecordKinds == {"clean", "throws"}

RecordLists == UNION {[1..n -> RecordKinds] : n \in 0..MaxWorkRecords}

\* records[index], index counting from 0
RecordAt(i) == recordList[i + 1]

Indices == 0..(Len(recordList) - 1)

\* Faulty variant of AfterClaim: the cursor is read but not advanced.
AfterClaim_Stale(cursor) == cursor

\* current++ leaves the cursor one further
AfterClaim(cursor) == cursor + 1

WorkersInit ==
    /\ recordList \in RecordLists
    /\ current = 0
    /\ wpc = [w \in Workers |-> "start"]
    /\ index = [w \in Workers |-> 0 - 1]
    /\ attempts = [w \in Workers |-> 0]
    /\ claims = [i \in Indices |-> 0]
    /\ tried = [i \in Indices |-> 0]
    /\ insertedBy = [i \in Indices |-> {}]
    /\ processedCount = 0
    /\ skippedCount = 0
    /\ allSettled = FALSE
    /\ PipelineIdle /\ ParsersIdle /\ StagesIdle /\ UploadsIdle /\ ConfigIdle
    /\ LoaderIdle

\* A worker's code runs from one await to the next with nothing in between:
\* while one worker is running no other moves.
NoneRunning == \A w \in Workers : wpc[w] # "running"

\* .map(() => worker()): the workers are called in turn, each running up to
\* its first await before the next is called.
CallWorker(w) ==
    /\ wpc[w] = "start"
    /\ NoneRunning
    /\ \A v \in Workers : v < w => wpc[v] # "start"
    /\ wpc' = [wpc EXCEPT ![w] = "running"]
    /\ UNCHANGED <<recordList, current, index, attempts, claims, tried,
                   insertedBy, processedCount, skippedCount, allSettled>>
    /\ UNCHANGED <<pipelineVars, parserVars, stageVars, uploadVars, configVars, loaderVars>>

\* One turn of while (current < records.length): the claim of an index, the
\* sanitising of the record and, if that does not throw, the first
\* client.query of retryInsert.
Claim(w) ==
    /\ wpc[w] = "running"
    /\ IF current < Len(recordList)
       THEN /\ index' = [index EXCEPT ![w] = current]
            /\ current' = AfterClaim(current)
            /\ claims' = [claims EXCEPT ![current] = @ + 1]
            /\ IF RecordAt(current) = "throws"
               THEN /\ skippedCount' = skippedCount + 1
                    /\ UNCHANGED <<wpc, attempts, tried>>
               ELSE /\ attempts' = [attempts EXCEPT ![w] = 0]
                    /\ tried' = [tried EXCEPT ![current] = @ + 1]
                    /\ wpc' = [wpc EXCEPT ![w] = "query"]
                    /\ UNCHANGED skippedCount
       ELSE /\ wpc' = [wpc EXCEPT ![w] = "done"]
            /\ UNCHANGED <<current, index, attempts, claims, tried, skippedCount>>
    /\ UNCHANGED <<recordList, insertedBy, processedCount, allSettled>>
    /\ UNCHANGED <<pipelineVars, parserVars, stageVars, uploadVars, configVars, loaderVars>>

\* await client.query(insertQuery, values) resolves: return, processedCount++
InsertSucceeds(w) ==
    /\ wpc[w] = "query"
    /\ NoneRunning
    /\ \A v \in Workers : wpc[v] # "start"
    /\ insertedBy' = [insertedBy EXCEPT ![index[w]] = @ \cup {w}]
    /\ processedCount' = processedCount + 1
    /\ wpc' = [wpc EXCEPT ![w] = "running"]
    /\ UNCHANGED <<recordList, current, index, attempts, claims, tried,
                   skippedCount, allSettled>>
    /\ UNCHANGED <<pipelineVars, parserVars, stageVars, uploadVars, configVars, loaderVars>>

\* await client.query(insertQuery, values) rejects: attempts++, and either
\* the next query or throw e, which the worker's catch counts as skipped
InsertFails(w) ==
    /\ wpc[w] = "query"
    /\ NoneRunning
    /\ \A v \in Workers : wpc[v] # "start"
    /\ attempts' = [attempts EXCEPT ![w] = @ + 1]
    /\ IF attempts[w] + 1 >= InsertAttempts
       THEN /\ skippedCount' = skippedCount + 1
            /\ wpc' = [wpc EXCEPT ![w] = "running"]
            /\ UNCHANGED tried
       ELSE /\ tried' = [tried EXCEPT ![index[w]] = @ + 1]
            /\ UNCHANGED <<wpc, skippedCount>>
    /\ UNCHANGED <<recordList, current, index, claims, insertedBy,
                   processedCount, allSettled>>
    /\ UNCHANGED <<pipelineVars, parserVars, stageVars, uploadVars, configVars, loaderVars>>

\* await Promise.all(...) resolves
AllWorkersDone ==
    /\ ~allSettled
    /\ \A w \in Workers : wpc[w] = "done"
    /\ allSettled' = TRUE
    /\ UNCHANGED <<recordList, current, wpc, index, attempts, claims, tried,
                   insertedBy, processedCount, skippedCount>>
    /\ UNCHANGED <<pipelineVars, parserVars, stageVars, uploadVars, configVars, loaderVars>>

WorkersNext ==
    \/ \E w \in Workers : CallWorker(w)
    \/ \E w \in Workers : Claim(w)
    \/ \E w \in Workers : InsertSucceeds(w)
    \/ \E w \in Workers : InsertFails(w)
    \/ AllWorkersDone

SpecWorkers == WorkersInit /\ [][WorkersNext]_vars

====
